---------------------------- MODULE Spec2Model ----------------------------
(***************************************************************************)
(* Model of the layout core of falkordb-canvas.                            *)
(*                                                                         *)
(* Part 1: the data/layout transformer (dataToGraphData, graphDataToData,  *)
(*         circularLayout, calculateLinkCurve, getPairIds).                *)
(* Part 2: the FalkorDBCanvas component (setData, the ticks of the force   *)
(*         engine, the paint of the links with drawLink).                  *)
(* Part 3: the life cycle of the component (connectedCallback, setData,    *)
(*         setGraphData, setViewport, setCooldownTicks, setConfig, the     *)
(*         stop of the force engine and the grace timer it schedules).     *)
(* Part 4: the distance accessor of the link force (setupForces).          *)
(* Part 5: wrapTextForCircularNode.                                        *)
(* Part 6: getContrastTextColor.                                           *)
(* Part 7: drawLink, its drawing calls and its arrow tip.                  *)
(* Part 8: the text cache of drawLink and the labels of drawNode.          *)
(* Part 9: the loading state and the tick budget under every setter.       *)
(* Part 10: the draw pass and the engine stop of src/src/canvas.ts.        *)
(*                                                                         *)
(* Numbers.  Coordinates are fixed-point integers in 1/1000 px.  A link's  *)
(* curve is stored in tenths (curve * 10), so LINK_CURVE_MULTIPLIER = 0.4  *)
(* is the integer 4.  A JavaScript value that may be undefined is the      *)
(* empty sequence << >> (Undefined) or the one-element sequence << v >>.   *)
(*                                                                         *)
(* Objects.  A JavaScript object is a function from its property names to  *)
(* their values; a property that was never set is outside the DOMAIN, a    *)
(* property set to undefined is inside it with value Undefined.  A link's  *)
(* source/target is a reference to a node object: [arena |-> "nodes",      *)
(* at |-> i] is the i-th object of the nodes list the link was built with, *)
(* [arena |-> "old", at |-> k] is the object stored under key k of the     *)
(* oldNodesMap argument.                                                   *)
(***************************************************************************)
EXTENDS Integers, Sequences, FiniteSets, TLC

VARIABLES
    inData,       \* transformer harness: the Data argument
    inPosition,   \* transformer harness: the position argument
    oldNodesMap,  \* transformer harness: the oldNodesMap argument
    outGraph,     \* transformer harness: result of dataToGraphData (<< >> before the call)
    outData,      \* transformer harness: result of graphDataToData (<< >> before the call)
    data,         \* FalkorDBCanvas.data
    lastOp,       \* the operation that produced the current state
    drawn,        \* control points handed to the drawing surface in the last paint
    config,       \* FalkorDBCanvas.config (every value is Undefined or << v >>)
    graph,        \* FalkorDBCanvas.graph: Undefined or << the force-graph instance >>
    viewport,     \* FalkorDBCanvas.viewport
    nodeDegreeMap, \* FalkorDBCanvas.nodeDegreeMap
    engineStatus, \* the data-engine-status attribute of the canvas element
    timers,       \* number of pending setTimeout callbacks of handleEngineStop
    calls,        \* what the last engine stop called: zoomToFit, setTimeout
    settled,      \* history: the engine reported a stop since the last setData
    forceIn,      \* force study: the degrees of the two ends of a link
    forceOut,     \* force study: the distance the link force gives that link
    wrapIn,       \* text study: the text and maxRadius arguments
    wrapOut,      \* text study: result of wrapTextForCircularNode
    colorIn,      \* colour study: the bgColor argument
    colorOut,     \* colour study: result of getContrastTextColor
    arrowIn,      \* drawLink study: the link, its end nodes and the selection
    arrowOut,     \* drawLink study: the branch taken, the tip and the drawing calls
    relationshipsTextCache, \* FalkorDBCanvas.relationshipsTextCache
    measured,     \* the relationship strings measured since construction, in order
    loadingCalls  \* the values the last step passed to onLoadingChange, in order

vars == <<inData, inPosition, oldNodesMap, outGraph, outData, data, lastOp, drawn,
          config, graph, viewport, nodeDegreeMap, engineStatus, timers, calls,
          settled, forceIn, forceOut, wrapIn, wrapOut, colorIn, colorOut,
          arrowIn, arrowOut, relationshipsTextCache, measured, loadingCalls>>

forceVars == <<forceIn, forceOut>>
wrapVars == <<wrapIn, wrapOut>>
colorVars == <<colorIn, colorOut>>
arrowVars == <<arrowIn, arrowOut>>
studyVars == <<forceVars, wrapVars, colorVars, arrowVars>>
paintVars == <<relationshipsTextCache, measured>>
harnessVars == <<inData, inPosition, oldNodesMap, outGraph, outData, studyVars>>
lifeVars == <<config, graph, viewport, nodeDegreeMap, engineStatus, timers, calls,
              settled, loadingCalls>>
canvasVars == <<data, drawn, lifeVars, paintVars>>

-----------------------------------------------------------------------------
(* Bounds of the model *)

MaxNodes == 3
MaxLinks == 3
MaxEnds == 2
MaxIndex == 8

(* Program constants *)

LINK_DISTANCE == 45
NODE_SIZE == 6
LINK_CURVE_MULTIPLIER_X10 == 4

\* Math.PI * 2, in thousandths
TWO_PI_X1000 == 6283

-----------------------------------------------------------------------------
(* JavaScript helpers *)

Undefined == << >>

Some(v) == << v >>

IsDefined(v) == v # Undefined

\* a ?? b
Coalesce(a, b) == IF IsDefined(a) THEN a ELSE b

\* obj?.prop where obj is Undefined or << object >>
OptProp(obj, prop) ==
    IF IsDefined(obj) /\ prop \in DOMAIN obj[1] THEN obj[1][prop] ELSE Undefined

\* { ...a, ...b }
Spread(a, b) ==
    [f \in DOMAIN a \cup DOMAIN b |-> IF f \in DOMAIN b THEN b[f] ELSE a[f]]

\* const { k1, k2, ..., ...rest } = obj
Rest(obj, keys) == [f \in DOMAIN obj \ keys |-> obj[f]]

\* rounding division of a (possibly negative) integer by a positive one
RoundDiv(a, b) ==
    IF a >= 0 THEN (2 * a + b) \div (2 * b) ELSE -((2 * (-a) + b) \div (2 * b))

\* Math.sin((2 * Math.PI * i) / m) and Math.cos((2 * Math.PI * i) / m) in
\* thousandths, row m, column i + 1, for m up to 6
SIN_TABLE ==
    << <<0>>,
       <<0, 0>>,
       <<0, 866, -866>>,
       <<0, 1000, 0, -1000>>,
       <<0, 951, 588, -588, -951>>,
       <<0, 866, 866, 0, -866, -866>> >>

COS_TABLE ==
    << <<1000>>,
       <<1000, -1000>>,
       <<1000, -500, -500>>,
       <<1000, 0, -1000, 0>>,
       <<1000, 309, -809, -809, 309>>,
       <<1000, 500, -500, -1000, -500, 500>> >>

SinTurn(i, m) == SIN_TABLE[m][i + 1]

CosTurn(i, m) == COS_TABLE[m][i + 1]

-----------------------------------------------------------------------------
(* Part 1: the transformer *)

\* mutant: no normalisation of the pair, A->B and B->A counted apart
getPairIdsOrdered(source, target) == <<source, target>>

getPairIds(source, target) ==
    IF source <= target THEN <<source, target>> ELSE <<target, source>>

\* mutant: the self-loop offset is left out
calculateLinkCurveNoOffset(index, isSelfLoop) ==
    IF index % 2 = 0
    THEN ((-index) \div 2) * LINK_CURVE_MULTIPLIER_X10
    ELSE ((index + 1) \div 2) * LINK_CURVE_MULTIPLIER_X10

\* Math.floor(-(index / 2)) is (-index) \div 2, Math.floor((index + 1) / 2) is
\* (index + 1) \div 2: \div rounds towards minus infinity like Math.floor.
calculateLinkCurve(index, isSelfLoop) ==
    LET even == index % 2 = 0 IN
    IF isSelfLoop
    THEN IF even
         THEN (((-index) \div 2) - 3) * LINK_CURVE_MULTIPLIER_X10
         ELSE (((index + 1) \div 2) + 2) * LINK_CURVE_MULTIPLIER_X10
    ELSE IF even
         THEN ((-index) \div 2) * LINK_CURVE_MULTIPLIER_X10
         ELSE ((index + 1) \div 2) * LINK_CURVE_MULTIPLIER_X10

\* nodes.filter(node => !node.initialPositionCalculated), as indices into nodes
Unlocated(nodes) ==
    SelectSeq([i \in 1..Len(nodes) |-> i],
              LAMBDA i : ~ nodes[i].initialPositionCalculated)

\* radius * trig in 1/1000 px, where radius = (count * LINK_DISTANCE) / (Math.PI * 2)
\* and trig is a sine or cosine in thousandths
RadiusTimes(trig, count) ==
    RoundDiv(count * LINK_DISTANCE * trig * 1000, TWO_PI_X1000)

\* mutant: the angle is divided by the count of all nodes
circularLayoutByNodeCount(nodes, center, radiusCount) ==
    LET unlocatedNodes == Unlocated(nodes)
        m == Len(unlocatedNodes)
        Rank(i) == CHOOSE k \in 1..m : unlocatedNodes[k] = i
    IN  [i \in 1..Len(nodes) |->
            IF nodes[i].initialPositionCalculated
            THEN nodes[i]
            ELSE Spread(nodes[i],
                   [x |-> Some(center.x
                               + RadiusTimes(SinTurn(Rank(i) - 1, Len(nodes)), radiusCount)),
                    y |-> Some(center.y
                               + RadiusTimes(CosTurn(Rank(i) - 1, Len(nodes)), radiusCount)),
                    initialPositionCalculated |-> TRUE])]

\* the radius argument is passed as the node count it is computed from
circularLayout(nodes, center, radiusCount) ==
    LET unlocatedNodes == Unlocated(nodes)
        m == Len(unlocatedNodes)
        Rank(i) == CHOOSE k \in 1..m : unlocatedNodes[k] = i
    IN  [i \in 1..Len(nodes) |->
            IF nodes[i].initialPositionCalculated
            THEN nodes[i]
            ELSE Spread(nodes[i],
                   [x |-> Some(center.x + RadiusTimes(SinTurn(Rank(i) - 1, m), radiusCount)),
                    y |-> Some(center.y + RadiusTimes(CosTurn(Rank(i) - 1, m), radiusCount)),
                    initialPositionCalculated |-> TRUE])]

\* oldNodesMap?.get(id)
OldGet(old, id) == IF id \in DOMAIN old THEN Some(old[id]) ELSE Undefined

\* mutant: the position argument wins over the old node's coordinates
MakeGraphNodePositionFirst(node, old, position) ==
    LET oldNode == OldGet(old, node.id) IN
    Spread(node,
      [size |-> IF "size" \in DOMAIN node THEN node.size ELSE NODE_SIZE,
       displayName |-> <<"", "">>,
       x |-> Coalesce(OptProp(position, "x"), OptProp(oldNode, "x")),
       y |-> Coalesce(OptProp(position, "y"), OptProp(oldNode, "y")),
       vx |-> Undefined,
       vy |-> Undefined,
       fx |-> Undefined,
       fy |-> Undefined,
       initialPositionCalculated |->
           IF IsDefined(oldNode) /\ "initialPositionCalculated" \in DOMAIN oldNode[1]
           THEN oldNode[1].initialPositionCalculated
           ELSE FALSE])

\* the nodes.map(...) of dataToGraphData
MakeGraphNode(node, old, position) ==
    LET oldNode == OldGet(old, node.id) IN
    Spread(node,
      [size |-> IF "size" \in DOMAIN node THEN node.size ELSE NODE_SIZE,
       displayName |-> <<"", "">>,
       x |-> Coalesce(OptProp(oldNode, "x"), OptProp(position, "x")),
       y |-> Coalesce(OptProp(oldNode, "y"), OptProp(position, "y")),
       vx |-> Undefined,
       vy |-> Undefined,
       fx |-> Undefined,
       fy |-> Undefined,
       initialPositionCalculated |->
           IF IsDefined(oldNode) /\ "initialPositionCalculated" \in DOMAIN oldNode[1]
           THEN oldNode[1].initialPositionCalculated
           ELSE FALSE])

\* nodeMap.get(id): the last node of the list with that id (Map.set overwrites)
NodeMapGet(nodes, id) ==
    LET hits == {i \in 1..Len(nodes) : nodes[i].id = id} IN
    IF hits = {} THEN Undefined
    ELSE Some([arena |-> "nodes", at |-> CHOOSE i \in hits : \A j \in hits : j <= i])

\* mutant: no fallback to the old map
ResolveNewOnly(nodes, old, id) == NodeMapGet(nodes, id)

\* nodeMap.get(id) || oldNodesMap?.get(id), as a reference
Resolve(nodes, old, id) ==
    IF IsDefined(NodeMapGet(nodes, id)) THEN NodeMapGet(nodes, id)
    ELSE IF id \in DOMAIN old THEN Some([arena |-> "old", at |-> id])
    ELSE Undefined

\* the object a reference points to
Deref(nodes, old, ref) ==
    IF ref.arena = "nodes" THEN nodes[ref.at] ELSE old[ref.at]

\* linksByPairCount.get(min)?.get(max) ?? 0
PairCount(counts, pair) == IF pair \in DOMAIN counts THEN counts[pair] ELSE 0

\* data.links.map(...).filter(link => link !== undefined), links k..Len in order
RECURSIVE BuildLinks(_, _, _, _, _)
BuildLinks(links, k, nodes, old, counts) ==
    IF k > Len(links) THEN << >>
    ELSE
      LET link == links[k]
          sourceNode == Resolve(nodes, old, link.source)
          targetNode == Resolve(nodes, old, link.target)
      IN  IF ~ IsDefined(sourceNode) \/ ~ IsDefined(targetNode)
          THEN BuildLinks(links, k + 1, nodes, old, counts)
          ELSE
            LET sourceId == Deref(nodes, old, sourceNode[1]).id
                targetId == Deref(nodes, old, targetNode[1]).id
                pair == getPairIds(sourceId, targetId)
                duplicateIndex == PairCount(counts, pair)
                counts2 == [p \in DOMAIN counts \cup {pair} |->
                               IF p = pair THEN duplicateIndex + 1 ELSE counts[p]]
                graphLink == Spread(link,
                               [source |-> sourceNode[1],
                                target |-> targetNode[1],
                                curve |-> calculateLinkCurve(duplicateIndex,
                                                             sourceId = targetId)])
            IN  <<graphLink>> \o BuildLinks(links, k + 1, nodes, old, counts2)

EmptyMap == [p \in {} |-> 0]

dataToGraphData(d, position, old) ==
    LET mapped == [i \in 1..Len(d.nodes) |-> MakeGraphNode(d.nodes[i], old, position)]
        nodes == circularLayout(mapped, [x |-> 0, y |-> 0], Len(mapped))
    IN  [nodes |-> nodes, links |-> BuildLinks(d.links, 1, nodes, old, EmptyMap)]

\* mutant: size is stripped with the runtime properties
graphDataToDataNoSize(graphData, old) ==
    [nodes |-> [i \in 1..Len(graphData.nodes) |->
                  Rest(graphData.nodes[i],
                       {"x", "y", "vx", "vy", "fx", "fy", "displayName", "size"})],
     links |-> [i \in 1..Len(graphData.links) |->
                  LET link == graphData.links[i] IN
                  Spread(Rest(link, {"curve", "source", "target"}),
                         [source |-> Deref(graphData.nodes, old, link.source).id,
                          target |-> Deref(graphData.nodes, old, link.target).id])]]

\* old is the map the references of graphData.links into the "old" arena point to
graphDataToData(graphData, old) ==
    [nodes |-> [i \in 1..Len(graphData.nodes) |->
                  Rest(graphData.nodes[i],
                       {"x", "y", "vx", "vy", "fx", "fy", "displayName"})],
     links |-> [i \in 1..Len(graphData.links) |->
                  LET link == graphData.links[i] IN
                  Spread(Rest(link, {"curve", "source", "target"}),
                         [source |-> Deref(graphData.nodes, old, link.source).id,
                          target |-> Deref(graphData.nodes, old, link.target).id])]]

-----------------------------------------------------------------------------
(* Inputs of the transformer harness *)

NodeIds == 1..MaxNodes

\* an exchange-format node; even ids carry the optional size and caption
InputNode(id) ==
    LET base == [id |-> id, labels |-> <<"L">>, color |-> "#336699",
                 visible |-> (id # 3), data |-> [name |-> id]]
    IN  IF id % 2 = 0 THEN Spread(base, [size |-> 10, caption |-> "name"]) ELSE base

\* an exchange-format link; its id is its place in the list
InputLink(k, source, target) ==
    [id |-> 10 + k, relationship |-> "REL", color |-> "#999999",
     source |-> source, target |-> target, visible |-> TRUE, data |-> [w |-> k]]

\* all sequences over S of length at most n
RECURSIVE SeqsUpTo(_, _)
SeqsUpTo(S, n) ==
    IF n = 0 THEN {<< >>}
    ELSE LET shorter == SeqsUpTo(S, n - 1)
         IN  shorter \cup {Append(s, e) : s \in {t \in shorter : Len(t) = n - 1}, e \in S}

\* node lists: every sequence of distinct ids
NodeLists ==
    {[i \in 1..Len(s) |-> InputNode(s[i])] :
        s \in {t \in SeqsUpTo(NodeIds, MaxNodes) :
                  \A i, j \in 1..Len(t) : i # j => t[i] # t[j]}}

\* node lists 1..n in id order
PrefixNodeLists == {[i \in 1..n |-> InputNode(i)] : n \in 0..MaxNodes}

LinkEnds == 1..MaxEnds

LinkLists ==
    {[k \in 1..Len(s) |-> InputLink(k, s[k][1], s[k][2])] :
        s \in SeqsUpTo(LinkEnds \X LinkEnds, MaxLinks)}

\* a node object of an earlier snapshot.  "positioned": built by dataToGraphData
\* and moved by the engine since; "unflagged": a GraphNode that never went
\* through circularLayout (it has coordinates but no initialPositionCalculated)
OldNode(id, kind) ==
    LET moved == [size |-> IF id % 2 = 0 THEN 10 ELSE NODE_SIZE,
                  displayName |-> <<"", "">>,
                  x |-> Some(1000 * (10 + id)), y |-> Some(-1000 * id),
                  vx |-> Some(0), vy |-> Some(0), fx |-> Undefined, fy |-> Undefined]
    IN  IF kind = "positioned"
        THEN Spread(Spread(InputNode(id), moved), [initialPositionCalculated |-> TRUE])
        ELSE Spread(InputNode(id), moved)

\* old maps: any set of ids, each entry positioned or unflagged
OldMaps ==
    UNION {[S -> {"positioned", "unflagged"}] : S \in SUBSET NodeIds}

OldMapOf(kinds) == [id \in DOMAIN kinds |-> OldNode(id, kinds[id])]

EmptyOld == OldMapOf([id \in {} |-> "positioned"])

\* the old map that holds node 2 only
PartialOld == OldMapOf([id \in {2} |-> "positioned"])

Positions == {Undefined, Some([x |-> Some(7000), y |-> Some(9000)])}

EmptyGraph == [nodes |-> << >>, links |-> << >>]

\* layout study: every node order and old map, at most one link
\* link study: nodes 1..n, no old map or one that holds node 2, every link list
HarnessInit ==
    /\ \/ /\ inData \in {[nodes |-> nl, links |-> ll] :
                            nl \in NodeLists,
                            ll \in {<< >>, <<InputLink(1, 1, 2)>>}}
          /\ oldNodesMap \in {OldMapOf(k) : k \in OldMaps}
          /\ inPosition \in Positions
       \/ /\ inData \in {[nodes |-> nl, links |-> ll] :
                            nl \in PrefixNodeLists, ll \in LinkLists}
          /\ oldNodesMap \in {EmptyOld, PartialOld}
          /\ inPosition = Undefined
    /\ outGraph = Undefined
    /\ outData = Undefined

\* no call of the force study or of the text study is in progress
ForceIdle == forceIn = Undefined /\ forceOut = Undefined

WrapIdle == wrapIn = Undefined /\ wrapOut = Undefined

ColorIdle == colorIn = Undefined /\ colorOut = Undefined

ArrowIdle == arrowIn = Undefined /\ arrowOut = Undefined

StudyIdle == ForceIdle /\ WrapIdle /\ ColorIdle /\ ArrowIdle

\* the config a new component holds
InitialConfig ==
    [backgroundColor |-> Some("#FFFFFF"), foregroundColor |-> Some("#1A1A1A"),
     captionsKeys |-> Some(<< >>), showPropertyKeyPrefix |-> Some(FALSE)]

\* the component after its constructor, not yet connected to a document
CanvasInit ==
    /\ data = EmptyGraph
    /\ drawn = << >>
    /\ config = InitialConfig
    /\ graph = Undefined
    /\ viewport = Undefined
    /\ nodeDegreeMap = EmptyMap
    /\ engineStatus = Undefined
    /\ timers = 0
    /\ calls = << >>
    /\ settled = FALSE
    /\ loadingCalls = << >>
    /\ relationshipsTextCache = EmptyMap
    /\ measured = << >>

Init ==
    /\ HarnessInit
    /\ StudyIdle
    /\ CanvasInit
    /\ lastOp = "init"

CallDataToGraphData ==
    /\ outGraph = Undefined
    /\ outGraph' = Some(dataToGraphData(inData, inPosition, oldNodesMap))
    /\ lastOp' = "dataToGraphData"
    /\ UNCHANGED <<inData, inPosition, oldNodesMap, outData, canvasVars, studyVars>>

CallGraphDataToData ==
    /\ outGraph # Undefined
    /\ outData = Undefined
    /\ outData' = Some(graphDataToData(outGraph[1], oldNodesMap))
    /\ lastOp' = "graphDataToData"
    /\ UNCHANGED <<inData, inPosition, oldNodesMap, outGraph, canvasVars, studyVars>>

Next ==
    \/ CallDataToGraphData
    \/ CallGraphDataToData

Spec == Init /\ [][Next]_vars

-----------------------------------------------------------------------------
(* Properties of the transformer *)

Built == outGraph # Undefined

Exported == outData # Undefined

G == outGraph[1]

D == outData[1]

\* the id list of a list of objects
Ids(objs) == [i \in 1..Len(objs) |-> objs[i].id]

\* an endpoint id names a node of the new list or a key of the old map
HasNode(id) ==
    \/ \E i \in 1..Len(inData.nodes) : inData.nodes[i].id = id
    \/ id \in DOMAIN oldNodesMap

LinkResolves(link) == HasNode(link.source) /\ HasNode(link.target)

\* the node object a built link's end refers to
EndNode(ref) == IF ref.arena = "nodes" THEN G.nodes[ref.at] ELSE oldNodesMap[ref.at]

\* C1: the links of the snapshot are exactly the input links both of whose
\* endpoint ids resolve (in the new node list or in the old map), in input order;
\* every input link with an unresolved source or target is left out.
C1_UnresolvedLinksDropped ==
    Built => Ids(G.links) = Ids(SelectSeq(inData.links, LinkResolves))

\* C1 witness: a call that dropped one link for its source, one for its target,
\* and kept a link one of whose ends is found only in the old map.
C1_Witness ==
    /\ Built
    /\ \E i, j \in 1..Len(inData.links) :
          /\ ~ HasNode(inData.links[i].source) /\ HasNode(inData.links[i].target)
          /\ HasNode(inData.links[j].source) /\ ~ HasNode(inData.links[j].target)
    /\ \E k \in 1..Len(G.links) :
          G.links[k].source.arena = "old" \/ G.links[k].target.arena = "old"

\* C2: the source and the target of every link of the snapshot are node objects
\* of the snapshot's own nodes list.
C2_EndpointsInNodeList ==
    Built => \A k \in 1..Len(G.links) :
                /\ G.links[k].source.arena = "nodes"
                /\ G.links[k].target.arena = "nodes"

\* the old entry of a node says it is already positioned
Positioned(id) ==
    /\ id \in DOMAIN oldNodesMap
    /\ "initialPositionCalculated" \in DOMAIN oldNodesMap[id]
    /\ oldNodesMap[id].initialPositionCalculated

\* the point at angle 2 pi i / m of the circle of radius count * LINK_DISTANCE / (2 pi)
\* around (0, 0)
OnCircleAt(node, i, m, count) ==
    /\ node.x = Some(RadiusTimes(SinTurn(i, m), count))
    /\ node.y = Some(RadiusTimes(CosTurn(i, m), count))

\* C4: an already positioned node keeps the x and y of its old entry; every other
\* node lies on the circle of radius nodeCount * LINK_DISTANCE / (2 pi) around
\* (0, 0) and is marked initialPositionCalculated.
C4_PositionedKeptOthersOnCircle ==
    Built => \A i \in 1..Len(G.nodes) :
                LET node == G.nodes[i] IN
                IF Positioned(node.id)
                THEN /\ node.x = oldNodesMap[node.id].x
                     /\ node.y = oldNodesMap[node.id].y
                ELSE /\ \E m \in 1..Len(G.nodes) : \E j \in 0..(m - 1) :
                            OnCircleAt(node, j, m, Len(G.nodes))
                     /\ node.initialPositionCalculated

\* C4 witness: a call with a position argument that kept a positioned node and
\* laid out two others, in a snapshot of three nodes or more.
C4_Witness ==
    /\ Built
    /\ inPosition # Undefined
    /\ Len(G.nodes) >= 3
    /\ \E i \in 1..Len(G.nodes) : Positioned(G.nodes[i].id)
    /\ Cardinality({i \in 1..Len(G.nodes) : ~ Positioned(G.nodes[i].id)}) >= 2

\* indices of the nodes that are not yet positioned, in input order
UnpositionedIndices ==
    SelectSeq([i \in 1..Len(G.nodes) |-> i], LAMBDA i : ~ Positioned(G.nodes[i].id))

\* C5 as claimed: the i-th unpositioned node is at angle 2 pi i / nodeCount, the
\* count of all nodes of the snapshot.
C5_AngleByNodeCount ==
    Built => \A k \in 1..Len(UnpositionedIndices) :
                OnCircleAt(G.nodes[UnpositionedIndices[k]], k - 1,
                           Len(G.nodes), Len(G.nodes))

\* C5 amended: the i-th unpositioned node is at angle 2 pi i / m, where m is the
\* number of unpositioned nodes, on the circle whose radius is computed from the
\* count of all nodes.
C5_AngleByUnpositionedCount ==
    Built => \A k \in 1..Len(UnpositionedIndices) :
                OnCircleAt(G.nodes[UnpositionedIndices[k]], k - 1,
                           Len(UnpositionedIndices), Len(G.nodes))

\* C5 witness: two nodes laid out next to an already positioned one.
C5_Witness ==
    /\ Built
    /\ Len(UnpositionedIndices) >= 2
    /\ Len(UnpositionedIndices) < Len(G.nodes)

\* the case of the round trip: dataToGraphData(d) alone, every link of d resolving
RoundTripCase ==
    /\ inPosition = Undefined
    /\ oldNodesMap = EmptyOld
    /\ \A k \in 1..Len(inData.links) : LinkResolves(inData.links[k])

\* every property of object a is a property of object b with the same value
SameWherePresent(a, b) == \A f \in DOMAIN a : f \in DOMAIN b /\ b[f] = a[f]

\* C6: graphDataToData(dataToGraphData(d)) has as many nodes and links as d, in
\* the same order, and every property present on an input node or link has the
\* same value on the output one.
C6_RoundTripLossless ==
    (Exported /\ RoundTripCase) =>
        /\ Len(D.nodes) = Len(inData.nodes)
        /\ Len(D.links) = Len(inData.links)
        /\ \A i \in 1..Len(inData.nodes) : SameWherePresent(inData.nodes[i], D.nodes[i])
        /\ \A k \in 1..Len(inData.links) : SameWherePresent(inData.links[k], D.links[k])

\* C6 witness: a round trip of a graph with a node that has a size and a caption,
\* a node that has neither, and two links or more.
C6_Witness ==
    /\ Exported
    /\ RoundTripCase
    /\ Len(inData.links) >= 2
    /\ \E i, j \in 1..Len(inData.nodes) :
          "size" \in DOMAIN inData.nodes[i] /\ "size" \notin DOMAIN inData.nodes[j]

RuntimeNodeFields ==
    {"x", "y", "vx", "vy", "fx", "fy", "displayName", "initialPositionCalculated"}

\* C7: the nodes returned by graphDataToData have none of x, y, vx, vy, fx, fy,
\* displayName, initialPositionCalculated; the links have no curve and name their
\* endpoints by id.
C7_NoRuntimeFields ==
    Exported =>
        /\ \A i \in 1..Len(D.nodes) : DOMAIN D.nodes[i] \cap RuntimeNodeFields = {}
        /\ \A k \in 1..Len(D.links) :
              /\ "curve" \notin DOMAIN D.links[k]
              /\ D.links[k].source \in Nat
              /\ D.links[k].target \in Nat

\* the ids of the two ends of the k-th link of the snapshot
EndIds(k) == {EndNode(G.links[k].source).id, EndNode(G.links[k].target).id}

\* how many earlier links of the snapshot join the same unordered pair
IndexInPair(k) == Cardinality({j \in 1..(k - 1) : EndIds(j) = EndIds(k)})

\* C8: the k-th link (k = 0, 1, 2, ...) of an unordered pair of distinct nodes has
\* curve -(k/2)*0.4 for even k and +((k+1)/2)*0.4 for odd k, A->B and B->A counted
\* together; so two links of a pair never share a curve, the first is straight and
\* the second and third bend to opposite sides.
C8_PairCurves ==
    /\ \A n \in 0..MaxIndex :
          LET curve == calculateLinkCurve(n, FALSE) IN
          /\ n % 2 = 0 => curve = -(n \div 2) * LINK_CURVE_MULTIPLIER_X10
          /\ n % 2 = 1 => curve = ((n + 1) \div 2) * LINK_CURVE_MULTIPLIER_X10
          /\ \A j \in 0..MaxIndex : j # n => calculateLinkCurve(j, FALSE) # curve
    /\ Built =>
        \A k \in 1..Len(G.links) :
            Cardinality(EndIds(k)) = 2 =>
                LET n == IndexInPair(k)
                    curve == G.links[k].curve
                IN  /\ n % 2 = 0 => curve = -(n \div 2) * LINK_CURVE_MULTIPLIER_X10
                    /\ n % 2 = 1 => curve = ((n + 1) \div 2) * LINK_CURVE_MULTIPLIER_X10
                    /\ n = 0 => curve = 0
                    /\ \A j \in 1..(k - 1) :
                          EndIds(j) = EndIds(k) =>
                              /\ G.links[j].curve # curve
                              /\ (IndexInPair(j) = 1 /\ n = 2) =>
                                     G.links[j].curve * curve < 0

\* C8 witness: three links of one pair of distinct nodes, not all pointing the
\* same way.
C8_Witness ==
    /\ Built
    /\ \E i, j, k \in 1..Len(G.links) :
          /\ i < j /\ j < k
          /\ Cardinality(EndIds(i)) = 2
          /\ EndIds(i) = EndIds(j) /\ EndIds(j) = EndIds(k)
          /\ EndNode(G.links[j].source).id # EndNode(G.links[k].source).id

Abs(v) == IF v < 0 THEN -v ELSE v

IsSelfLoop(k) == Cardinality(EndIds(k)) = 1

\* C10: for every duplicate index k the self-loop curve is not 0, its magnitude is
\* at least 3*0.4 and does not decrease with k, and two indices never give the same
\* curve; so the self-loops of a snapshot are never straight and two self-loops on
\* one node differ in curve.
C10_SelfLoopCurves ==
    /\ \A k \in 0..MaxIndex :
          LET curve == calculateLinkCurve(k, TRUE) IN
          /\ curve # 0
          /\ Abs(curve) >= 3 * LINK_CURVE_MULTIPLIER_X10
          /\ k > 0 => Abs(curve) >= Abs(calculateLinkCurve(k - 1, TRUE))
          /\ \A j \in 0..MaxIndex : j # k => calculateLinkCurve(j, TRUE) # curve
    /\ Built =>
          \A k \in 1..Len(G.links) :
              IsSelfLoop(k) =>
                  /\ G.links[k].curve # 0
                  /\ \A j \in 1..(k - 1) :
                        EndIds(j) = EndIds(k) => G.links[j].curve # G.links[k].curve

\* C10 witness: three self-loops on one node.
C10_Witness ==
    /\ Built
    /\ \E i, j, k \in 1..Len(G.links) :
          /\ i < j /\ j < k
          /\ IsSelfLoop(i)
          /\ EndIds(i) = EndIds(j) /\ EndIds(j) = EndIds(k)

-----------------------------------------------------------------------------
(* Part 2: the FalkorDBCanvas component *)

\* the Data values given to setData: no node, node 1, or nodes 1 and 2, with
\* every list of links 1->2, 2->1 and 1->1 (with node 2 missing the first two
\* dangle)
CanvasPairs == {<<1, 2>>, <<2, 1>>, <<1, 1>>}

CanvasInputs ==
    {[nodes |-> [i \in 1..n |-> InputNode(i)],
      links |-> [k \in 1..Len(s) |-> InputLink(k, s[k][1], s[k][2])]] :
        n \in 0..2, s \in SeqsUpTo(CanvasPairs, MaxLinks)}

\* the positions the force engine moves a node to, in 1/1000 px
Grid == {<<0, 0>>, <<30000, 40000>>}

\* drawLink, up to the control point of the curve it strokes.  The result says
\* what was stroked: nothing, the self-loop of extent d (1/1000 px), or the
\* quadratic curve with control point (controlX, controlY) in 1/10000 px.
\* perpX * curvature * distance is (dy / distance) * curvature * distance, that is
\* dy * curvature; with the curve in tenths and the result in 1/10000 px the
\* chord midpoint (start.x + end.x) / 2 is 5 * (start.x + end.x).
drawLink(link, nodes) ==
    LET start == Deref(nodes, EmptyMap, link.source)
        end == Deref(nodes, EmptyMap, link.target)
        stroke == [link |-> link.id, from |-> start.id, to |-> end.id]
    IN  IF \/ start.x = Undefined \/ start.y = Undefined
           \/ end.x = Undefined \/ end.y = Undefined
        THEN Spread(stroke, [kind |-> "none"])
        ELSE IF start.id = end.id
        THEN LET nodeSize == IF start.size # 0 THEN start.size ELSE 6
             IN  Spread(stroke, [kind |-> "loop", d |-> link.curve * nodeSize * 1167])
        ELSE LET dx == end.x[1] - start.x[1]
                 dy == end.y[1] - start.y[1]
                 curvature == link.curve
             IN  IF dx = 0 /\ dy = 0
                 THEN Spread(stroke, [kind |-> "none"])
                 ELSE Spread(stroke,
                        [kind |-> "curve",
                         controlX |-> 5 * (start.x[1] + end.x[1]) + dy * curvature,
                         controlY |-> 5 * (start.y[1] + end.y[1]) - dx * curvature])

\* obj.prop: Undefined when the property was never set
Prop(obj, prop) == IF prop \in DOMAIN obj THEN obj[prop] ELSE Undefined

\* the tick count Infinity, encoded as the count -1 that no caller passes
Infinity == Some(-1)

\* map.set(k, v)
MapSet(map, k, v) == [x \in DOMAIN map \cup {k} |-> IF x = k THEN v ELSE map[x]]

\* map.get(k) || 0
MapGetOrZero(map, k) == IF k \in DOMAIN map THEN map[k] ELSE 0

\* links.forEach of calculateNodeDegree, from link k on
RECURSIVE CountLinkEnds(_, _, _)
CountLinkEnds(map, d, k) ==
    IF k > Len(d.links) THEN map
    ELSE LET sourceId == Deref(d.nodes, EmptyMap, d.links[k].source).id
             targetId == Deref(d.nodes, EmptyMap, d.links[k].target).id
             one == MapSet(map, sourceId, MapGetOrZero(map, sourceId) + 1)
             two == MapSet(one, targetId, MapGetOrZero(one, targetId) + 1)
         IN  CountLinkEnds(two, d, k + 1)

\* calculateNodeDegree without the clear() of the map
calculateNodeDegreeNoClear(map, d) ==
    LET ids == {d.nodes[i].id : i \in 1..Len(d.nodes)}
        zeroed == [id \in DOMAIN map \cup ids |-> IF id \in ids THEN 0 ELSE map[id]]
    IN  CountLinkEnds(zeroed, d, 1)

\* calculateNodeDegree: the map it leaves, given the map it finds
calculateNodeDegree(map, d) ==
    LET cleared == EmptyMap
        ids == {d.nodes[i].id : i \in 1..Len(d.nodes)}
        zeroed == [id \in DOMAIN cleared \cup ids |->
                      IF id \in ids THEN 0 ELSE cleared[id]]
    IN  CountLinkEnds(zeroed, d, 1)

\* the force-graph instance initGraph creates: its cooldownTicks, whether its
\* engine is running (graphData starts it, it stops by itself and reports it
\* through onEngineStop), and where its camera was put last
initGraph(cfg) ==
    Some([cooldownTicks |-> Coalesce(Prop(cfg, "cooldownTicks"), Infinity),
          engineRunning |-> TRUE,
          camera |-> [by |-> "initGraph", view |-> Undefined]])

\* updateCanvasSimulationAttribute: the canvas element exists once force-graph
\* was created in the container, and the container is in the shadow root
updateCanvasSimulationAttribute(status, g, isRunning) ==
    IF IsDefined(g)
    THEN Some(IF isRunning THEN "running" ELSE "stopped")
    ELSE status

\* setData: the snapshot is rebuilt from the Data alone, the simulation is
\* restarted for a snapshot with nodes and stopped for one without.  The
\* container exists only once render() created the graph, so the initGraph
\* branch of setData is never taken.
SetData(d) ==
    LET next == dataToGraphData(d, Undefined, EmptyOld)
        hasNodes == Len(next.nodes) > 0
        cfg == Spread(config,
                      [cooldownTicks |-> IF hasNodes THEN Undefined ELSE Some(0),
                       isLoading |-> Some(hasNodes)])
    IN  /\ data' = next
        /\ config' = cfg
        /\ engineStatus' = IF hasNodes
                           THEN updateCanvasSimulationAttribute(engineStatus, graph, TRUE)
                           ELSE engineStatus
        /\ IF IsDefined(graph)
           THEN /\ nodeDegreeMap' = calculateNodeDegree(nodeDegreeMap, next)
                /\ graph' = Some([graph[1] EXCEPT
                                    !.cooldownTicks =
                                        Coalesce(cfg.cooldownTicks, Infinity),
                                    !.engineRunning = TRUE])
           ELSE UNCHANGED <<nodeDegreeMap, graph>>
        /\ settled' = FALSE
        /\ calls' = << >>
        /\ drawn' = << >>
        /\ loadingCalls' = <<hasNodes>>
        /\ lastOp' = "setData"
        /\ UNCHANGED <<harnessVars, paintVars, viewport, timers>>

\* one tick of the force engine: it writes x, y, vx, vy of every node
EngineTick ==
    /\ IsDefined(graph)
    /\ Len(data.nodes) > 0
    /\ \E to \in [1..Len(data.nodes) -> Grid] :
          data' = [data EXCEPT !.nodes =
                     [i \in 1..Len(data.nodes) |->
                        Spread(data.nodes[i],
                               [x |-> Some(to[i][1]), y |-> Some(to[i][2]),
                                vx |-> Some(0), vy |-> Some(0)])]]
    /\ drawn' = << >>
    /\ lastOp' = "tick"
    /\ UNCHANGED <<harnessVars, lifeVars, paintVars>>

\* ctx.measureText(link.relationship) under the font of drawLink, one unit per
\* character
relationshipMetrics(relationship) ==
    [textWidth |-> Len(relationship), textHeight |-> 2, textYOffset |-> 1]

\* the text cache of drawLink without its set()
cacheTextNever(cache, relationship) == cache

\* the text cache after drawLink looked the relationship up: a string that is
\* not in the map is measured and stored
cacheText(cache, relationship) ==
    IF relationship \in DOMAIN cache THEN cache
    ELSE MapSet(cache, relationship, relationshipMetrics(relationship))

\* the cache and the strings measured so far, after drawLink for the links from
\* k on; a link that is not drawn does not reach the cache
RECURSIVE PaintLinks(_, _, _, _)
PaintLinks(cache, strings, d, k) ==
    IF k > Len(d.links) THEN [cache |-> cache, measured |-> strings]
    ELSE LET relationship == d.links[k].relationship IN
         IF drawLink(d.links[k], d.nodes).kind = "none"
         THEN PaintLinks(cache, strings, d, k + 1)
         ELSE PaintLinks(cacheText(cache, relationship),
                         IF relationship \in DOMAIN cache
                         THEN strings ELSE Append(strings, relationship),
                         d, k + 1)

\* one paint of the canvas: drawLink for every link, in list order (the links
\* of the model are all visible, no custom link renderer is configured)
Paint ==
    /\ IsDefined(graph)
    /\ Len(data.links) > 0
    /\ drawn' = [k \in 1..Len(data.links) |-> drawLink(data.links[k], data.nodes)]
    /\ relationshipsTextCache' = PaintLinks(relationshipsTextCache, measured, data, 1).cache
    /\ measured' = PaintLinks(relationshipsTextCache, measured, data, 1).measured
    /\ lastOp' = "paint"
    /\ UNCHANGED <<data, harnessVars, lifeVars>>

\* no transformer call is in progress
HarnessIdle ==
    /\ inData = [nodes |-> << >>, links |-> << >>]
    /\ inPosition = Undefined
    /\ oldNodesMap = EmptyOld
    /\ outGraph = Undefined
    /\ outData = Undefined

\* the component after its constructor and its connectedCallback
CanvasStart ==
    /\ HarnessIdle
    /\ StudyIdle
    /\ data = EmptyGraph
    /\ drawn = << >>
    /\ config = InitialConfig
    /\ graph = initGraph(InitialConfig)
    /\ viewport = Undefined
    /\ nodeDegreeMap = EmptyMap
    /\ engineStatus = Undefined
    /\ timers = 0
    /\ calls = << >>
    /\ settled = FALSE
    /\ loadingCalls = << >>
    /\ relationshipsTextCache = EmptyMap
    /\ measured = << >>
    /\ lastOp = "init"

CanvasNext ==
    \/ \E d \in CanvasInputs : SetData(d)
    \/ EngineTick
    \/ Paint

SpecCanvas == CanvasStart /\ [][CanvasNext]_vars

\* C3: a setData leaves every node whose id was in the snapshot before it at the
\* x and y it had immediately before the call.
C3_SetDataKeepsPositions ==
    [][lastOp' = "setData" =>
          \A i \in 1..Len(data.nodes) : \A j \in 1..Len(data'.nodes) :
              data.nodes[i].id = data'.nodes[j].id =>
                  /\ data'.nodes[j].x = data.nodes[i].x
                  /\ data'.nodes[j].y = data.nodes[i].y]_vars

\* C9: two distinct links between the same two distinct nodes, whichever way each
\* points, are never stroked with the same control point in one paint.
C9_ParallelLinksApart ==
    \A a, b \in 1..Len(drawn) :
        (/\ a # b
         /\ drawn[a].kind = "curve" /\ drawn[b].kind = "curve"
         /\ {drawn[a].from, drawn[a].to} = {drawn[b].from, drawn[b].to})
        => <<drawn[a].controlX, drawn[a].controlY>>
              # <<drawn[b].controlX, drawn[b].controlY>>

-----------------------------------------------------------------------------
(* Part 3: the life cycle of the component *)

MaxTimers == 2

\* the Data values given to setData in the life cycle: no node, node 1, or
\* nodes 1 and 2, without links or with the links 1->2 and 1->1
LifeInputs ==
    {[nodes |-> [i \in 1..n |-> InputNode(i)],
      links |-> [k \in 1..Len(s) |-> InputLink(k, s[k][1], s[k][2])]] :
        n \in 0..2, s \in {<< >>, << <<1, 2>>, <<1, 1>> >>}}

\* the GraphData values given to setGraphData: snapshots the component built
GraphInputs == {dataToGraphData(d, Undefined, EmptyOld) : d \in LifeInputs}

\* the arguments of setCooldownTicks and setViewport
TickInputs == {Undefined, Some(0)}

ViewportInputs == {Undefined, Some([zoom |-> 2, centerX |-> 10, centerY |-> 20])}

\* the arguments of setConfig
ConfigInputs == {[autoStopOnSettle |-> Some(FALSE)], [autoStopOnSettle |-> Some(TRUE)]}

\* connectedCallback -> render -> initGraph, for the first connection
connectedCallback ==
    /\ graph = Undefined
    /\ nodeDegreeMap' = calculateNodeDegree(nodeDegreeMap, data)
    /\ graph' = initGraph(config)
    /\ calls' = << >>
    /\ loadingCalls' = << >>
    /\ lastOp' = "connectedCallback"
    /\ UNCHANGED <<harnessVars, paintVars, data, drawn, config, viewport, engineStatus,
                   timers, settled>>

setConfig(c) ==
    /\ config' = Spread(config, c)
    /\ calls' = << >>
    /\ loadingCalls' = << >>
    /\ lastOp' = "setConfig"
    /\ UNCHANGED <<harnessVars, paintVars, data, drawn, graph, viewport, nodeDegreeMap,
                   engineStatus, timers, settled>>

setCooldownTicks(ticks) ==
    /\ Prop(config, "cooldownTicks") # ticks
    /\ config' = Spread(config, [cooldownTicks |-> ticks])
    /\ graph' = IF IsDefined(graph)
                THEN Some([graph[1] EXCEPT !.cooldownTicks = Coalesce(ticks, Infinity)])
                ELSE graph
    /\ engineStatus' =
          updateCanvasSimulationAttribute(engineStatus, graph, ticks # Some(0))
    /\ calls' = << >>
    /\ loadingCalls' = << >>
    /\ lastOp' = "setCooldownTicks"
    /\ UNCHANGED <<harnessVars, paintVars, data, drawn, viewport, nodeDegreeMap, timers,
                   settled>>

setViewport(v) ==
    /\ viewport' = v
    /\ calls' = << >>
    /\ loadingCalls' = << >>
    /\ lastOp' = "setViewport"
    /\ UNCHANGED <<harnessVars, paintVars, data, drawn, config, graph, nodeDegreeMap,
                   engineStatus, timers, settled>>

\* setGraphData: the snapshot is replaced as given; a stored viewport is put on
\* the camera once and forgotten
setGraphData(g) ==
    /\ data' = g
    /\ IF IsDefined(graph)
       THEN /\ nodeDegreeMap' = calculateNodeDegree(nodeDegreeMap, g)
            /\ graph' = Some([graph[1] EXCEPT
                                !.engineRunning = TRUE,
                                !.camera = IF IsDefined(viewport)
                                           THEN [by |-> "setGraphData", view |-> viewport]
                                           ELSE @])
            /\ viewport' = Undefined
       ELSE UNCHANGED <<nodeDegreeMap, graph, viewport>>
    /\ drawn' = << >>
    /\ calls' = << >>
    /\ loadingCalls' = << >>
    /\ lastOp' = "setGraphData"
    /\ UNCHANGED <<harnessVars, paintVars, config, engineStatus, timers, settled>>

\* handleEngineStop that schedules the timer whatever autoStopOnSettle says
handleEngineStopAlwaysTimer(cfg) ==
    IF Prop(cfg, "cooldownTicks") = Some(0)
    THEN [config |-> IF Prop(cfg, "isLoading") = Some(TRUE)
                     THEN Spread(cfg, [isLoading |-> Some(FALSE)])
                     ELSE cfg,
          calls |-> << >>]
    ELSE [config |-> cfg, calls |-> <<"zoomToFit", "setTimeout">>]

\* handleEngineStop without the early return of a layout at rest
handleEngineStopNoRestCheck(cfg) ==
    IF Prop(cfg, "autoStopOnSettle") # Some(FALSE)
    THEN [config |-> cfg, calls |-> <<"zoomToFit", "setTimeout">>]
    ELSE [config |-> Spread(cfg, [isLoading |-> Some(FALSE)]),
          calls |-> <<"zoomToFit">>]

\* handleEngineStop with a graph: the config it leaves and, in order, what it
\* calls (zoomToFit, setTimeout)
handleEngineStop(cfg) ==
    IF Prop(cfg, "cooldownTicks") = Some(0)
    THEN [config |-> IF Prop(cfg, "isLoading") = Some(TRUE)
                     THEN Spread(cfg, [isLoading |-> Some(FALSE)])
                     ELSE cfg,
          calls |-> << >>]
    ELSE IF Prop(cfg, "autoStopOnSettle") # Some(FALSE)
    THEN [config |-> cfg, calls |-> <<"zoomToFit", "setTimeout">>]
    ELSE [config |-> Spread(cfg, [isLoading |-> Some(FALSE)]),
          calls |-> <<"zoomToFit">>]

\* the values handleEngineStop passes to onLoadingChange before it returns
handleEngineStopLoadingCalls(cfg) ==
    IF Prop(cfg, "cooldownTicks") = Some(0)
    THEN IF Prop(cfg, "isLoading") = Some(TRUE) THEN <<FALSE>> ELSE << >>
    ELSE IF Prop(cfg, "autoStopOnSettle") # Some(FALSE)
    THEN << >>
    ELSE <<FALSE>>

\* the engine of force-graph stops and reports it: onEngineStop ->
\* handleEngineStop.  zoomToFit puts the camera on the extent of the nodes.
EngineStop ==
    /\ IsDefined(graph)
    /\ graph[1].engineRunning
    /\ LET stop == handleEngineStop(config)
           Called(f) == \E i \in 1..Len(stop.calls) : stop.calls[i] = f
       IN  /\ Called("setTimeout") => timers < MaxTimers
           /\ config' = stop.config
           /\ calls' = stop.calls
           /\ timers' = IF Called("setTimeout") THEN timers + 1 ELSE timers
           /\ graph' = Some([graph[1] EXCEPT
                               !.engineRunning = FALSE,
                               !.camera = IF Called("zoomToFit")
                                          THEN [by |-> "zoomToFit", view |-> Undefined]
                                          ELSE @])
    /\ loadingCalls' = handleEngineStopLoadingCalls(config)
    /\ settled' = TRUE
    /\ lastOp' = "engineStop"
    /\ UNCHANGED <<harnessVars, paintVars, data, drawn, viewport, nodeDegreeMap, engineStatus>>

\* the timer callback that only ends the loading
graceTimeoutLoadingOnly(cfg) == Spread(cfg, [isLoading |-> Some(FALSE)])

\* the config the timer callback of handleEngineStop leaves
graceTimeout(cfg) ==
    Spread(cfg, [isLoading |-> Some(FALSE), cooldownTicks |-> Some(0)])

\* a timer of handleEngineStop fires, 1000 ms after its engine stop
GraceTimer ==
    /\ timers > 0
    /\ timers' = timers - 1
    /\ IF IsDefined(graph)
       THEN /\ config' = graceTimeout(config)
            /\ graph' = Some([graph[1] EXCEPT
                                !.cooldownTicks = Prop(config', "cooldownTicks")])
            /\ engineStatus' =
                  updateCanvasSimulationAttribute(engineStatus, graph, FALSE)
            /\ loadingCalls' = <<FALSE>>
       ELSE /\ loadingCalls' = << >>
            /\ UNCHANGED <<config, graph, engineStatus>>
    /\ calls' = << >>
    /\ lastOp' = "timer"
    /\ UNCHANGED <<harnessVars, paintVars, data, drawn, viewport, nodeDegreeMap, settled>>

LifeStart ==
    /\ HarnessIdle
    /\ StudyIdle
    /\ CanvasInit
    /\ lastOp = "init"

LifeNext ==
    \/ connectedCallback
    \/ \E d \in LifeInputs : SetData(d)
    \/ \E g \in GraphInputs : setGraphData(g)
    \/ \E v \in ViewportInputs : setViewport(v)
    \/ \E ticks \in TickInputs : setCooldownTicks(ticks)
    \/ \E c \in ConfigInputs : setConfig(c)
    \/ EngineStop
    \/ GraceTimer

SpecLife == LifeStart /\ [][LifeNext]_vars

-----------------------------------------------------------------------------
(* Properties of the life cycle *)

\* C11: an engine stop with config.cooldownTicks not 0 and autoStopOnSettle not
\* false calls zoomToFit, then schedules one timer, and itself leaves
\* cooldownTicks (config and engine), isLoading and data-engine-status as they
\* were; the timer, firing with a graph, leaves config.cooldownTicks 0, the
\* engine's cooldownTicks 0, isLoading false and data-engine-status "stopped".
C11_GraceThenFreeze ==
    [][/\ (/\ lastOp' = "engineStop"
           /\ Prop(config, "cooldownTicks") # Some(0)
           /\ Prop(config, "autoStopOnSettle") # Some(FALSE))
          => /\ calls' = <<"zoomToFit", "setTimeout">>
             /\ graph'[1].camera.by = "zoomToFit"
             /\ timers' = timers + 1
             /\ Prop(config', "cooldownTicks") = Prop(config, "cooldownTicks")
             /\ Prop(config', "isLoading") = Prop(config, "isLoading")
             /\ graph'[1].cooldownTicks = graph[1].cooldownTicks
             /\ engineStatus' = engineStatus
       /\ (lastOp' = "timer" /\ IsDefined(graph))
          => /\ Prop(config', "cooldownTicks") = Some(0)
             /\ graph'[1].cooldownTicks = Some(0)
             /\ Prop(config', "isLoading") = Some(FALSE)
             /\ engineStatus' = Some("stopped")]_vars

\* C11 witness: the timer of the stop of a snapshot with nodes has fired.
C11_Witness ==
    /\ lastOp = "timer"
    /\ settled
    /\ Len(data.nodes) > 0
    /\ Prop(config, "cooldownTicks") = Some(0)
    /\ engineStatus = Some("stopped")

\* C12: an engine stop with config.cooldownTicks not 0 and autoStopOnSettle false
\* leaves isLoading false, calls zoomToFit only, schedules no timer and leaves
\* config.cooldownTicks and the engine's cooldownTicks as they were.
C12_NoFreezeWithoutAutoStop ==
    [][(/\ lastOp' = "engineStop"
        /\ Prop(config, "cooldownTicks") # Some(0)
        /\ Prop(config, "autoStopOnSettle") = Some(FALSE))
       => /\ Prop(config', "isLoading") = Some(FALSE)
          /\ calls' = <<"zoomToFit">>
          /\ timers' = timers
          /\ Prop(config', "cooldownTicks") = Prop(config, "cooldownTicks")
          /\ graph'[1].cooldownTicks = graph[1].cooldownTicks]_vars

\* C12 witness: a snapshot with nodes settled with autoStopOnSettle false.
C12_Witness ==
    /\ lastOp = "engineStop"
    /\ Len(data.nodes) > 0
    /\ Prop(config, "autoStopOnSettle") = Some(FALSE)
    /\ calls = <<"zoomToFit">>
    /\ Prop(config, "isLoading") = Some(FALSE)
    /\ Prop(config, "cooldownTicks") = Undefined

\* C13: an engine stop with config.cooldownTicks 0 calls neither zoomToFit nor
\* setTimeout, leaves the camera where it was and leaves config.cooldownTicks
\* and the engine's cooldownTicks as they were.
C13_StopAtRestDoesNothing ==
    [][(lastOp' = "engineStop" /\ Prop(config, "cooldownTicks") = Some(0))
       => /\ calls' = << >>
          /\ timers' = timers
          /\ graph'[1].camera = graph[1].camera
          /\ Prop(config', "cooldownTicks") = Some(0)
          /\ graph'[1].cooldownTicks = graph[1].cooldownTicks]_vars

\* C13 witness: the engine stopped on a layout at rest.
C13_Witness ==
    /\ lastOp = "engineStop"
    /\ Prop(config, "cooldownTicks") = Some(0)
    /\ calls = << >>

\* C14: a timer that fires while the snapshot given by the last setData has
\* nodes, is loading, is not frozen and has not yet had its engine stop neither
\* freezes it (config or engine cooldownTicks 0) nor ends its loading.
C14_NewDataSupersedes ==
    [][(/\ lastOp' = "timer"
        /\ ~settled
        /\ Len(data.nodes) > 0
        /\ Prop(config, "isLoading") = Some(TRUE)
        /\ Prop(config, "cooldownTicks") # Some(0))
       => /\ Prop(config', "cooldownTicks") # Some(0)
          /\ graph'[1].cooldownTicks # Some(0)
          /\ Prop(config', "isLoading") = Some(TRUE)]_vars

\* C15: a canvas that carries data-engine-status carries "stopped" exactly when
\* config.cooldownTicks is 0 and "running" otherwise.
C15_StatusMirrorsCooldown ==
    IsDefined(engineStatus) =>
        engineStatus = Some(IF Prop(config, "cooldownTicks") = Some(0)
                            THEN "stopped" ELSE "running")

\* C16: setGraphData on an initialised graph with a stored viewport v leaves the
\* camera at v and the stored viewport cleared, and the engine stop that
\* follows that setGraphData leaves a camera put at v where it is.
C16_ViewportSurvives ==
    [][/\ (lastOp' = "setGraphData" /\ IsDefined(graph) /\ IsDefined(viewport))
          => /\ graph'[1].camera = [by |-> "setGraphData", view |-> viewport]
             /\ viewport' = Undefined
       /\ (/\ lastOp = "setGraphData"
           /\ lastOp' = "engineStop"
           /\ graph[1].camera.by = "setGraphData")
          => graph'[1].camera = graph[1].camera]_vars

\* the number of ends of links of d that sit on node id
IncidentEnds(d, id) ==
    Cardinality({k \in 1..Len(d.links) :
                    Deref(d.nodes, EmptyMap, d.links[k].source).id = id})
    + Cardinality({k \in 1..Len(d.links) :
                    Deref(d.nodes, EmptyMap, d.links[k].target).id = id})

RECURSIVE SumOver(_, _)
SumOver(map, S) ==
    IF S = {} THEN 0
    ELSE LET k == CHOOSE x \in S : TRUE IN map[k] + SumOver(map, S \ {k})

\* C17: with a graph, nodeDegreeMap has exactly the node ids of the current
\* snapshot as keys, maps each to the number of link ends on it (two for a
\* self-loop, none for an isolated node), and its values sum to twice the
\* number of links.
C17_DegreesOfSnapshot ==
    IsDefined(graph) =>
        /\ DOMAIN nodeDegreeMap = {data.nodes[i].id : i \in 1..Len(data.nodes)}
        /\ \A id \in DOMAIN nodeDegreeMap :
              nodeDegreeMap[id] = IncidentEnds(data, id)
        /\ SumOver(nodeDegreeMap, DOMAIN nodeDegreeMap) = 2 * Len(data.links)

\* C17 witness: after an engine stop, setGraphData installed the snapshot of
\* node 1 alone with its self-loop, counted twice.
C17_Witness ==
    /\ IsDefined(graph)
    /\ lastOp = "setGraphData"
    /\ settled
    /\ Len(data.nodes) = 1
    /\ Len(data.links) = 1
    /\ DOMAIN nodeDegreeMap = {1}
    /\ nodeDegreeMap[1] = 2

-----------------------------------------------------------------------------
(* Part 4: the distance of the link force (setupForces of canvas.ts) *)

MaxDegree == 32

CANVAS_LINK_DISTANCE == 50
MAX_LINK_DISTANCE == 80
CROWDING_THRESHOLD == 10

\* Math.min, Math.max
Min(a, b) == IF a <= b THEN a ELSE b

Max(a, b) == IF a >= b THEN a ELSE b

\* the distance accessor of the link force, in tenths (the 1.5 per degree is 15)
linkDistance(sourceDegree, targetDegree) ==
    LET maxDegree == Max(sourceDegree, targetDegree)
    IN  IF maxDegree >= CROWDING_THRESHOLD
        THEN LET extraDistance ==
                     Min(10 * (MAX_LINK_DISTANCE - CANVAS_LINK_DISTANCE),
                         (maxDegree - CROWDING_THRESHOLD) * 15)
                 sumDegree == 10 * CANVAS_LINK_DISTANCE + extraDistance
             IN  IF /\ sourceDegree >= CROWDING_THRESHOLD
                    /\ targetDegree >= CROWDING_THRESHOLD
                 THEN sumDegree * 2
                 ELSE sumDegree
        ELSE 10 * CANVAS_LINK_DISTANCE

\* the degrees nodeDegreeMap holds for the two ends of a link
ForcesInit ==
    /\ HarnessIdle
    /\ CanvasInit
    /\ forceIn \in {Some([sourceDegree |-> a, targetDegree |-> b]) :
                       a \in 0..MaxDegree, b \in 0..MaxDegree}
    /\ forceOut = Undefined
    /\ WrapIdle
    /\ ColorIdle
    /\ ArrowIdle
    /\ lastOp = "init"

\* the link force asks for the distance of the link
CallLinkDistance ==
    /\ IsDefined(forceIn)
    /\ forceOut = Undefined
    /\ forceOut' = Some(linkDistance(forceIn[1].sourceDegree, forceIn[1].targetDegree))
    /\ lastOp' = "linkDistance"
    /\ UNCHANGED <<inData, inPosition, oldNodesMap, outGraph, outData, canvasVars,
                   forceIn, wrapVars, colorVars, arrowVars>>

ForcesNext == CallLinkDistance

SpecForces == ForcesInit /\ [][ForcesNext]_vars

\* C18: the distance of every link is at least LINK_DISTANCE and at most
\* MAX_LINK_DISTANCE, is LINK_DISTANCE when both degrees are below
\* CROWDING_THRESHOLD, and is not larger than the distance of the same link with
\* its larger degree raised by one.
C18_LinkDistanceBounded ==
    IsDefined(forceOut) =>
        LET s == forceIn[1].sourceDegree
            t == forceIn[1].targetDegree
            distance == forceOut[1]
        IN  /\ distance >= 10 * CANVAS_LINK_DISTANCE
            /\ distance <= 10 * MAX_LINK_DISTANCE
            /\ (s < CROWDING_THRESHOLD /\ t < CROWDING_THRESHOLD)
                  => distance = 10 * CANVAS_LINK_DISTANCE
            /\ distance <= (IF s >= t THEN linkDistance(s + 1, t)
                                      ELSE linkDistance(s, t + 1))

-----------------------------------------------------------------------------
(* Part 5: wrapTextForCircularNode *)
(*                                                                         *)
(* A string is the sequence of its characters.  The measuring context is   *)
(* the one of the wrap property: every character is 1 unit wide.  maxRadius *)
(* is given in eighths of a unit, so that with halfTextHeight = 1.125 = 9/8 *)
(* width <= lineWidth = 2 * sqrt(max(0, r^2 - 1.125^2)) is, for a width that *)
(* is not negative, 16 * width^2 <= max(0, R^2 - 81) with R = 8 * r.        *)

MaxWord == 16
MaxText == 5

\* ctx.measureText(s).width
measureText(s) == Len(s)

ellipsis == <<".", ".", ".">>

\* width <= lineWidth
FitsLine(width, maxRadius) ==
    16 * width * width <= Max(0, maxRadius * maxRadius - 81)

\* text.split(/\s+/): a run of blanks separates two words, a text that starts
\* or ends with a blank has an empty first or last word
RECURSIVE SplitFrom(_, _, _, _)
SplitFrom(text, i, words, word) ==
    IF i > Len(text) THEN Append(words, word)
    ELSE IF text[i] = " "
    THEN IF i > 1 /\ text[i - 1] = " "
         THEN SplitFrom(text, i + 1, words, word)
         ELSE SplitFrom(text, i + 1, Append(words, word), << >>)
    ELSE SplitFrom(text, i + 1, words, Append(word, text[i]))

Split(text) == SplitFrom(text, 1, << >>, << >>)

\* words.join(" ")
RECURSIVE Join(_)
Join(words) ==
    IF Len(words) = 0 THEN << >>
    ELSE IF Len(words) = 1 THEN words[1]
    ELSE words[1] \o <<" ">> \o Join(Tail(words))

\* s.slice(0, -1)
DropLast(s) == SubSeq(s, 1, Len(s) - 1)

\* while (partialWord.length > 0 && width(partialWord) > lineWidth) slice
RECURSIVE Shrink(_, _)
Shrink(partialWord, maxRadius) ==
    IF Len(partialWord) > 0 /\ ~FitsLine(measureText(partialWord), maxRadius)
    THEN Shrink(DropLast(partialWord), maxRadius)
    ELSE partialWord

\* while (line2.length > 0 && width(line2) + ellipsisWidth > lineWidth) slice
RECURSIVE ShrinkForEllipsis(_, _)
ShrinkForEllipsis(line2, maxRadius) ==
    IF /\ Len(line2) > 0
       /\ ~FitsLine(measureText(line2) + measureText(ellipsis), maxRadius)
    THEN ShrinkForEllipsis(DropLast(line2), maxRadius)
    ELSE line2

\* the for loop over the words, from word i on with line1 as built so far
RECURSIVE WrapFrom(_, _, _, _)
WrapFrom(words, i, line1, maxRadius) ==
    IF i > Len(words) THEN [line1 |-> line1, line2 |-> << >>]
    ELSE LET word == words[i]
             testLine == IF Len(line1) > 0 THEN line1 \o <<" ">> \o word ELSE word
         IN  IF FitsLine(measureText(testLine), maxRadius)
             THEN WrapFrom(words, i + 1, testLine, maxRadius)
             ELSE IF Len(line1) = 0
             THEN LET partialWord == Shrink(word, maxRadius)
                      remainingWords ==
                          <<SubSeq(word, Len(partialWord) + 1, Len(word))>>
                          \o SubSeq(words, i + 1, Len(words))
                  IN  [line1 |-> partialWord, line2 |-> Join(remainingWords)]
             ELSE [line1 |-> line1, line2 |-> Join(SubSeq(words, i, Len(words)))]

\* wrapTextForCircularNode that cuts and marks every second line
wrapTextAlwaysEllipsis(text, maxRadius) ==
    LET lines == WrapFrom(Split(text), 1, << >>, maxRadius)
    IN  <<lines.line1, ShrinkForEllipsis(lines.line2, maxRadius) \o ellipsis>>

wrapTextForCircularNode(text, maxRadius) ==
    LET lines == WrapFrom(Split(text), 1, << >>, maxRadius)
        line2 == IF /\ Len(lines.line2) > 0
                    /\ ~FitsLine(measureText(lines.line2), maxRadius)
                 THEN ShrinkForEllipsis(lines.line2, maxRadius) \o ellipsis
                 ELSE lines.line2
    IN  <<lines.line1, line2>>

\* a word of n letters
Word(n) == [i \in 1..n |-> "a"]

\* the texts: every word of up to MaxWord letters, every text of up to MaxText
\* letters and blanks
Texts ==
    {Word(n) : n \in 0..MaxWord} \cup SeqsUpTo({"a", " "}, MaxText)

\* maxRadius in eighths: line widths 0, 0, 1.09, 2.34, 3, 4.46 and 10
Radii == {0, 9, 10, 13, 15, 20, 41}

WrapInit ==
    /\ HarnessIdle
    /\ CanvasInit
    /\ ForceIdle
    /\ ColorIdle
    /\ ArrowIdle
    /\ wrapIn \in {Some([text |-> t, maxRadius |-> r]) : t \in Texts, r \in Radii}
    /\ wrapOut = Undefined
    /\ lastOp = "init"

CallWrapText ==
    /\ IsDefined(wrapIn)
    /\ wrapOut = Undefined
    /\ wrapOut' = Some(wrapTextForCircularNode(wrapIn[1].text, wrapIn[1].maxRadius))
    /\ lastOp' = "wrapText"
    /\ UNCHANGED <<inData, inPosition, oldNodesMap, outGraph, outData, canvasVars,
                   forceVars, wrapIn, colorVars, arrowVars>>

WrapNext == CallWrapText

SpecWrap == WrapInit /\ [][WrapNext]_vars

Wrapped == IsDefined(wrapOut)

\* the number of characters of the widest line that fits
LineChars(maxRadius) ==
    CHOOSE w \in 0..(MaxWord + 1) :
        /\ FitsLine(w, maxRadius)
        /\ (w + 1 > MaxWord + 1 \/ ~FitsLine(w + 1, maxRadius))

\* the text is one word, too long for one line
OneLongWord ==
    /\ Wrapped
    /\ \A i \in 1..Len(wrapIn[1].text) : wrapIn[1].text[i] # " "
    /\ Len(wrapIn[1].text) > LineChars(wrapIn[1].maxRadius)

EndsInEllipsis(line) ==
    Len(line) >= 3 /\ SubSeq(line, Len(line) - 2, Len(line)) = ellipsis

\* C19 as stated: a single word longer than the line width W comes back as a
\* first line of W characters and a second line that ends in "..." and is at
\* most W wide (so for the 15-letter word and W = 10).
C19_LongWordEndsInEllipsis ==
    OneLongWord =>
        LET W == LineChars(wrapIn[1].maxRadius)
        IN  /\ wrapOut[1][1] = SubSeq(wrapIn[1].text, 1, W)
            /\ EndsInEllipsis(wrapOut[1][2])
            /\ measureText(wrapOut[1][2]) <= W

\* C19, amended: a single word longer than the line width W comes back as its
\* first W characters and, on the second line, the rest of it when the rest is
\* at most W characters long (the 15-letter word and W = 10 give 10 and 5
\* letters, no "..."), otherwise the next max(0, W - 3) characters followed by
\* "...", which is exactly W wide when W is at least 3.
C19_LongWordSplit ==
    OneLongWord =>
        LET W == LineChars(wrapIn[1].maxRadius)
            text == wrapIn[1].text
            rest == SubSeq(text, W + 1, Len(text))
        IN  /\ wrapOut[1][1] = SubSeq(text, 1, W)
            /\ Len(rest) <= W => wrapOut[1][2] = rest
            /\ Len(rest) > W =>
                  /\ wrapOut[1][2] = SubSeq(rest, 1, Max(0, W - 3)) \o ellipsis
                  /\ W >= 3 => measureText(wrapOut[1][2]) = W

\* C19 witness: the 15-letter word at line width 10 gave 10 and 5 letters.
C19_Witness ==
    /\ Wrapped
    /\ wrapIn[1].text = Word(15)
    /\ LineChars(wrapIn[1].maxRadius) = 10
    /\ wrapOut[1] = <<Word(10), Word(5)>>

\* C20: the result is two strings, each at most the line width wide.
C20_BothLinesFit ==
    Wrapped =>
        /\ Len(wrapOut[1]) = 2
        /\ FitsLine(measureText(wrapOut[1][1]), wrapIn[1].maxRadius)
        /\ FitsLine(measureText(wrapOut[1][2]), wrapIn[1].maxRadius)

-----------------------------------------------------------------------------
(* Part 6: getContrastTextColor *)
(*                                                                         *)
(* A colour string is the sequence of its characters.  A number is a       *)
(* fraction n / d in lowest terms, or NaN.  The fractions are exact where   *)
(* the code rounds to a double; the inputs of the model are away from the   *)
(* luminance 0.5 by far more than that rounding, except the gray of         *)
(* lightness 50%, whose products and sums are exact in doubles too.  The    *)
(* strings of the model hold no sign and no x, so that parseInt is a run of *)
(* digits after optional blanks.                                            *)

MaxColor == 3

NaN == [nan |-> TRUE, n |-> 0, d |-> 1]

RECURSIVE GCD(_, _)
GCD(a, b) == IF b = 0 THEN a ELSE GCD(b, a % b)

\* the fraction n / d (d > 0) in lowest terms
Frac(n, d) ==
    LET g == GCD(IF n < 0 THEN -n ELSE n, d)
    IN  [nan |-> FALSE, n |-> n \div g, d |-> d \div g]

RAdd(a, b) ==
    IF a.nan \/ b.nan THEN NaN
    ELSE LET g == GCD(a.d, b.d)
         IN  Frac(a.n * (b.d \div g) + b.n * (a.d \div g), (a.d \div g) * b.d)

RNeg(a) == IF a.nan THEN NaN ELSE [a EXCEPT !.n = -a.n]

RSub(a, b) == RAdd(a, RNeg(b))

RMul(a, b) ==
    IF a.nan \/ b.nan THEN NaN
    ELSE LET x == Frac(a.n, b.d)
             y == Frac(b.n, a.d)
         IN  Frac(x.n * y.n, x.d * y.d)

\* a < b, a > b, a === b of two numbers: false when either is NaN
RLess(a, b) ==
    /\ ~a.nan
    /\ ~b.nan
    /\ LET g == GCD(a.d, b.d) IN a.n * (b.d \div g) < b.n * (a.d \div g)

RGreater(a, b) == RLess(b, a)

REqual(a, b) == ~a.nan /\ ~b.nan /\ a.n = b.n /\ a.d = b.d

\* a / b; a division by 0 gives no finite number
RDiv(a, b) ==
    IF a.nan \/ b.nan \/ b.n = 0 THEN NaN
    ELSE RMul(a, IF b.n < 0 THEN Frac(-b.d, -b.n) ELSE Frac(b.d, b.n))

DecDigits == {"0", "1", "2", "3", "4", "5", "6", "7", "8", "9"}

HexDigits == DecDigits \cup {"a", "b", "c", "d", "e", "f", "A", "B", "C", "D", "E", "F"}

DigitValue(c) ==
    CASE c = "0" -> 0 [] c = "1" -> 1 [] c = "2" -> 2 [] c = "3" -> 3
      [] c = "4" -> 4 [] c = "5" -> 5 [] c = "6" -> 6 [] c = "7" -> 7
      [] c = "8" -> 8 [] c = "9" -> 9
      [] c \in {"a", "A"} -> 10 [] c \in {"b", "B"} -> 11
      [] c \in {"c", "C"} -> 12 [] c \in {"d", "D"} -> 13
      [] c \in {"e", "E"} -> 14 [] c \in {"f", "F"} -> 15

\* the index after the longest run of characters of set that starts at i
RECURSIVE RunEnd(_, _, _)
RunEnd(text, i, set) ==
    IF i <= Len(text) /\ text[i] \in set THEN RunEnd(text, i + 1, set) ELSE i

\* the value of a run of digits in the radix
RECURSIVE DigitsValue(_, _)
DigitsValue(digits, radix) ==
    IF Len(digits) = 0 THEN 0
    ELSE DigitsValue(SubSeq(digits, 1, Len(digits) - 1), radix) * radix
         + DigitValue(digits[Len(digits)])

\* parseInt(text, radix): blanks are skipped, the digits that follow are read,
\* the rest is ignored; NaN without a digit
parseInt(text, radix) ==
    LET from == RunEnd(text, 1, {" "})
        to == RunEnd(text, from, IF radix = 16 THEN HexDigits ELSE DecDigits)
    IN  IF to = from THEN NaN
        ELSE Frac(DigitsValue(SubSeq(text, from, to - 1), radix), 1)

RECURSIVE TenTo(_)
TenTo(k) == IF k = 0 THEN 1 ELSE 10 * TenTo(k - 1)

\* parseFloat of a run of digits and dots: digits, a dot, digits; NaN without
\* a digit; whatever follows a second dot is ignored
parseFloat(text) ==
    LET intEnd == RunEnd(text, 1, DecDigits)
        hasDot == intEnd <= Len(text) /\ text[intEnd] = "."
        fracEnd == IF hasDot THEN RunEnd(text, intEnd + 1, DecDigits) ELSE intEnd
        intDigits == SubSeq(text, 1, intEnd - 1)
        fracDigits == IF hasDot THEN SubSeq(text, intEnd + 1, fracEnd - 1) ELSE << >>
    IN  IF Len(intDigits) = 0 /\ Len(fracDigits) = 0 THEN NaN
        ELSE Frac(DigitsValue(intDigits, 10) * TenTo(Len(fracDigits))
                    + DigitsValue(fracDigits, 10),
                  TenTo(Len(fracDigits)))

\* text.startsWith(prefix) and the same at index i
HasAt(text, i, piece) ==
    /\ i + Len(piece) - 1 <= Len(text)
    /\ SubSeq(text, i, i + Len(piece) - 1) = piece

\* /hsl\((\d+),\s*([\d.]+)%,\s*([\d.]+)%\)/ tried at index i: Undefined, or the
\* three groups and the index after the match
HslMatchAt(text, i) ==
    LET hFrom == i + 4
        hTo == RunEnd(text, hFrom, DecDigits)
        sFrom == RunEnd(text, hTo + 1, {" "})
        sTo == RunEnd(text, sFrom, DecDigits \cup {"."})
        lFrom == RunEnd(text, sTo + 2, {" "})
        lTo == RunEnd(text, lFrom, DecDigits \cup {"."})
    IN  IF /\ HasAt(text, i, <<"h", "s", "l", "(">>)
           /\ hTo > hFrom
           /\ HasAt(text, hTo, <<",">>)
           /\ sTo > sFrom
           /\ HasAt(text, sTo, <<"%", ",">>)
           /\ lTo > lFrom
           /\ HasAt(text, lTo, <<"%", ")">>)
        THEN Some([h |-> SubSeq(text, hFrom, hTo - 1),
                   s |-> SubSeq(text, sFrom, sTo - 1),
                   l |-> SubSeq(text, lFrom, lTo - 1),
                   end |-> lTo + 2])
        ELSE Undefined

\* bgColor.match(...): the leftmost match
RECURSIVE HslMatchFrom(_, _)
HslMatchFrom(text, i) ==
    IF i > Len(text) THEN Undefined
    ELSE IF IsDefined(HslMatchAt(text, i)) THEN HslMatchAt(text, i)
    ELSE HslMatchFrom(text, i + 1)

\* bgColor.replace('#', ''): the first # is removed
RECURSIVE RemoveFirstHash(_)
RemoveFirstHash(text) ==
    IF Len(text) = 0 THEN text
    ELSE IF Head(text) = "#" THEN Tail(text)
    ELSE <<Head(text)>> \o RemoveFirstHash(Tail(text))

\* hex.substring(from, to), indices from 0
Substring(text, from, to) == SubSeq(text, from + 1, Min(to, Len(text)))

hue2rgb(p, q, tParam) ==
    LET t1 == IF RLess(tParam, Frac(0, 1)) THEN RAdd(tParam, Frac(1, 1)) ELSE tParam
        t == IF RGreater(t1, Frac(1, 1)) THEN RSub(t1, Frac(1, 1)) ELSE t1
    IN  IF RLess(t, Frac(1, 6))
        THEN RAdd(p, RMul(RMul(RSub(q, p), Frac(6, 1)), t))
        ELSE IF RLess(t, Frac(1, 2)) THEN q
        ELSE IF RLess(t, Frac(2, 3))
        THEN RAdd(p, RMul(RMul(RSub(q, p), RSub(Frac(2, 3), t)), Frac(6, 1)))
        ELSE p

\* 0.2126 * r + 0.7152 * g + 0.0722 * b
Luminance(r, g, b) ==
    RAdd(RAdd(RMul(Frac(2126, 10000), r), RMul(Frac(7152, 10000), g)),
         RMul(Frac(722, 10000), b))

\* the same with luminance >= 0.5
ContrastAtLeastHalf(r, g, b) ==
    IF RLess(Luminance(r, g, b), Frac(1, 2)) THEN "white" ELSE "black"

\* luminance > 0.5 ? 'black' : 'white'
ContrastOf(r, g, b) ==
    IF RGreater(Luminance(r, g, b), Frac(1, 2)) THEN "black" ELSE "white"

getContrastTextColor(bgColor) ==
    IF HasAt(bgColor, 1, <<"h", "s", "l">>)
    THEN LET hslMatch == HslMatchFrom(bgColor, 1)
         IN  IF IsDefined(hslMatch)
             THEN LET h == RMul(parseInt(hslMatch[1].h, 10), Frac(1, 360))
                      s == RMul(parseFloat(hslMatch[1].s), Frac(1, 100))
                      l == RMul(parseFloat(hslMatch[1].l), Frac(1, 100))
                  IN  IF REqual(s, Frac(0, 1))
                      THEN ContrastOf(l, l, l)
                      ELSE LET q == IF RLess(l, Frac(1, 2))
                                    THEN RMul(l, RAdd(Frac(1, 1), s))
                                    ELSE RSub(RAdd(l, s), RMul(l, s))
                               p == RSub(RMul(Frac(2, 1), l), q)
                           IN  ContrastOf(hue2rgb(p, q, RAdd(h, Frac(1, 3))),
                                          hue2rgb(p, q, h),
                                          hue2rgb(p, q, RSub(h, Frac(1, 3))))
             ELSE "white"
    ELSE LET stripped == RemoveFirstHash(bgColor)
             hex == IF Len(stripped) = 3
                    THEN <<stripped[1], stripped[1], stripped[2], stripped[2],
                           stripped[3], stripped[3]>>
                    ELSE stripped
         IN  ContrastOf(RMul(parseInt(Substring(hex, 0, 2), 16), Frac(1, 255)),
                        RMul(parseInt(Substring(hex, 2, 4), 16), Frac(1, 255)),
                        RMul(parseInt(Substring(hex, 4, 6), 16), Frac(1, 255)))

BLACK_HEX == <<"#", "0", "0", "0", "0", "0", "0">>

WHITE_HEX == <<"#", "F", "F", "F", "F", "F", "F">>

GRAY_HEX == <<"#", "8", "0", "8", "0", "8", "0">>

GRAY_HSL == <<"h", "s", "l", "(", "0", ",", "0", "%", ",", "5", "0", "%", ")">>

\* colour strings: well-formed and malformed hex and hsl strings, and every
\* string of up to MaxColor characters of #, 0, 8, F and g
ColorInputs ==
    {BLACK_HEX,
     WHITE_HEX,
     GRAY_HEX,
     <<"#", "7", "F", "7", "F", "7", "F">>,
     <<"#", "f", "f", "f">>,
     <<"#", "F", "F", "F", "F", "F", "F", "F", "F">>,
     <<"F", "F", "F", "F", "F", "F", "g">>,
     <<"F", "F", "F", "F", "F", "F", "#">>,
     <<"r", "g", "b", "(", "2", "5", "5", ",", "2", "5", "5", ",", "2", "5", "5", ")">>,
     GRAY_HSL,
     <<"h", "s", "l", "(", "0", ",", " ", "0", "%", ",", " ", "5", "0", "%", ")">>,
     <<"h", "s", "l", "(", "0", ",", "0", "%", ",", "1", "0", "0", "%", ")">>,
     <<"h", "s", "l", "(", "0", ",", "0", "%", ",", "0", "%", ")">>,
     <<"h", "s", "l", "(", "0", ",", "0", "%", ",", "5", "0", ".", "5", "%", ")">>,
     <<"h", "s", "l", "(", "1", "2", "0", ",", "1", "0", "0", "%", ",", "5", "0", "%", ")">>,
     <<"h", "s", "l", "(", "2", "4", "0", ",", "1", "0", "0", "%", ",", "5", "0", "%", ")">>,
     <<"h", "s", "l", "(", "0", ",", "5", "0", "%", ",", "2", "5", "%", ")">>,
     <<"h", "s", "l">>,
     <<"h", "s", "l", "(", "0", ",", "0", "%", ")">>,
     <<"h", "s", "l", "(", "0", ",", "0", "%", ",", ".", "%", ")">>,
     <<"h", "s", "l", "(", "a", ",", "0", "%", ",", "1", "0", "0", "%", ")">>,
     <<"h", "s", "l", "h", "s", "l", "(", "0", ",", "0", "%", ",", "1", "0", "0", "%", ")">>,
     <<"h", "s", "l", "(", "0", ",", "0", "%", ",", "1", "0", "0", "%", ")", "g">>}
    \cup SeqsUpTo({"#", "0", "8", "F", "g"}, MaxColor)

ColorInit ==
    /\ HarnessIdle
    /\ CanvasInit
    /\ ForceIdle
    /\ WrapIdle
    /\ ArrowIdle
    /\ colorIn \in {Some(c) : c \in ColorInputs}
    /\ colorOut = Undefined
    /\ lastOp = "init"

CallContrastTextColor ==
    /\ IsDefined(colorIn)
    /\ colorOut = Undefined
    /\ colorOut' = Some(getContrastTextColor(colorIn[1]))
    /\ lastOp' = "getContrastTextColor"
    /\ UNCHANGED <<inData, inPosition, oldNodesMap, outGraph, outData, canvasVars,
                   forceVars, wrapVars, colorIn, arrowVars>>

ColorNext == CallContrastTextColor

SpecColor == ColorInit /\ [][ColorNext]_vars

Colored == IsDefined(colorOut)

\* C21: #000000 gives "white", #FFFFFF gives "black", and hsl(0,0%,50%) gives
\* what #808080 gives.
C21_ContrastOfBlackWhiteGray ==
    Colored =>
        /\ colorIn[1] = BLACK_HEX => colorOut[1] = "white"
        /\ colorIn[1] = WHITE_HEX => colorOut[1] = "black"
        /\ colorIn[1] = GRAY_HSL => colorOut[1] = getContrastTextColor(GRAY_HEX)

\* the whole string is hsl(h, s%, l%)
IsHslForm(text) ==
    /\ IsDefined(HslMatchAt(text, 1))
    /\ HslMatchAt(text, 1)[1].end = Len(text) + 1

\* C21, as the code has it: #000000 gives "white" and #FFFFFF gives "black"; an
\* achromatic hsl(h, 0%, l%) gives "black" exactly when l is above 50, so
\* hsl(0,0%,50%) gives "white" while #808080, of lightness 128/255, gives
\* "black".
C21_ContrastByLuminance ==
    Colored =>
        /\ colorIn[1] = BLACK_HEX => colorOut[1] = "white"
        /\ colorIn[1] = WHITE_HEX => colorOut[1] = "black"
        /\ colorIn[1] = GRAY_HEX => colorOut[1] = "black"
        /\ colorIn[1] = GRAY_HSL => colorOut[1] = "white"
        /\ (/\ IsHslForm(colorIn[1])
            /\ REqual(parseFloat(HslMatchAt(colorIn[1], 1)[1].s), Frac(0, 1)))
              => (colorOut[1] = "black"
                    <=> RGreater(parseFloat(HslMatchAt(colorIn[1], 1)[1].l),
                                 Frac(50, 1)))

C21_Witness ==
    /\ Colored
    /\ colorIn[1] = GRAY_HSL
    /\ colorOut[1] = "white"
    /\ getContrastTextColor(GRAY_HEX) = "black"

\* the string is 3 or 6 hex digits, with or without a leading #
IsHexColor(text) ==
    LET digits == IF Len(text) > 0 /\ text[1] = "#" THEN Tail(text) ELSE text
    IN  /\ Len(digits) \in {3, 6}
        /\ \A i \in 1..Len(digits) : digits[i] \in HexDigits

\* C22: the result is "black" or "white"; a string that starts with hsl and is
\* not hsl(h, s%, l%), and a string that is not a 3- or 6-digit hex colour, give
\* "white".
C22_MalformedGivesWhite ==
    Colored =>
        /\ colorOut[1] \in {"black", "white"}
        /\ (HasAt(colorIn[1], 1, <<"h", "s", "l">>) /\ ~IsHslForm(colorIn[1]))
              => colorOut[1] = "white"
        /\ (~HasAt(colorIn[1], 1, <<"h", "s", "l">>) /\ ~IsHexColor(colorIn[1]))
              => colorOut[1] = "white"

-----------------------------------------------------------------------------
(* Part 7: the arrow tip of drawLink *)
(*                                                                         *)
(* Coordinates, the parameter of the curve and the radius are exact         *)
(* fractions.  The chords of the model have a whole length, so that         *)
(* Math.sqrt is exact on them; the doubles of the code differ from the       *)
(* fractions by roundings of about 1e-13, far below the distances compared  *)
(* here.  A sum of squares is compared in limbs of 11 bits, which keeps      *)
(* every product small.                                                     *)

Lcm(a, b) == (a \div GCD(a, b)) * b

\* the three limbs of a natural number below 2^31, lowest first
Limbs(n) == <<n % 2048, (n \div 2048) % 2048, n \div 4194304>>

\* the limbs of n * n, not yet carried
SquareLimbs(n) ==
    LET a == Limbs(Abs(n))
    IN  <<a[1] * a[1], 2 * a[1] * a[2], 2 * a[1] * a[3] + a[2] * a[2],
          2 * a[2] * a[3], a[3] * a[3]>>

\* the limbs carried into 0..2047, the last entry is the signed rest
RECURSIVE CarryLimbs(_, _)
CarryLimbs(v, carry) ==
    IF Len(v) = 0 THEN <<carry>>
    ELSE <<(Head(v) + carry) % 2048>>
         \o CarryLimbs(Tail(v), (Head(v) + carry) \div 2048)

\* the sign (-1, 0, 1) of the number with limbs v
SignOfLimbs(v) ==
    LET c == CarryLimbs(v, 0)
    IN  IF c[Len(c)] > 0 THEN 1
        ELSE IF c[Len(c)] < 0 THEN -1
        ELSE IF \E k \in 1..(Len(c) - 1) : c[k] > 0 THEN 1
        ELSE 0

\* the sign of a * a + b * b - c * c
SumSqSign(a, b, c) ==
    LET L == Lcm(Lcm(a.d, b.d), c.d)
        A == SquareLimbs(a.n * (L \div a.d))
        B == SquareLimbs(b.n * (L \div b.d))
        C == SquareLimbs(c.n * (L \div c.d))
    IN  SignOfLimbs([k \in 1..5 |-> A[k] + B[k] - C[k]])

\* Q(t) = (1-t)^2 start + 2 (1-t) t control + t^2 end, one coordinate
QuadraticAt(t, start, control, end) ==
    LET um == RSub(Frac(1, 1), t)
    IN  RAdd(RAdd(RMul(RMul(um, um), start),
                  RMul(RMul(RMul(Frac(2, 1), um), t), control)),
             RMul(RMul(t, t), end))

RMin(a, b) == IF RLess(b, a) THEN b ELSE a

RMax(a, b) == IF RGreater(b, a) THEN b ELSE a

\* the control point and the border radius of a link with distinct ends
ArrowGeometry(in) ==
    LET startX == in.startX[1]
        startY == in.startY[1]
        endX == in.endX[1]
        endY == in.endY[1]
        dx == RSub(endX, startX)
        dy == RSub(endY, startY)
        perpX == RDiv(dy, in.distance)
        perpY == RDiv(RNeg(dx), in.distance)
        curvature == Frac(in.curve, 10)
        endNodeSize == IF IsDefined(in.size) /\ in.size[1] # 0 THEN in.size[1] ELSE 6
    IN  [startX |-> startX, startY |-> startY, endX |-> endX, endY |-> endY,
         distance |-> in.distance,
         controlX |-> RAdd(RMul(RAdd(startX, endX), Frac(1, 2)),
                           RMul(RMul(perpX, curvature), in.distance)),
         controlY |-> RAdd(RMul(RAdd(startY, endY), Frac(1, 2)),
                           RMul(RMul(perpY, curvature), in.distance)),
         borderRadius |-> RAdd(Frac(endNodeSize, 1),
                               IF in.selected THEN Frac(1, 1) ELSE Frac(1, 2))]

\* dxEnd * dxEnd + dyEnd * dyEnd > borderRadiusSq at Q(t)
OutsideBorder(g, t) ==
    /\ ~g.controlX.nan
    /\ ~g.controlY.nan
    /\ SumSqSign(RSub(QuadraticAt(t, g.startX, g.controlX, g.endX), g.endX),
                 RSub(QuadraticAt(t, g.startY, g.controlY, g.endY), g.endY),
                 g.borderRadius) > 0

\* the loop over i < 10 with its break at hi - lo < 1e-3; the result is <<lo, hi>>
RECURSIVE BisectArrow(_, _, _, _)
BisectArrow(g, lo, hi, i) ==
    IF i >= 10 THEN <<lo, hi>>
    ELSE LET mid == RMul(RAdd(lo, hi), Frac(1, 2))
             newLo == IF OutsideBorder(g, mid) THEN mid ELSE lo
             newHi == IF OutsideBorder(g, mid) THEN hi ELSE mid
         IN  IF RLess(RSub(newHi, newLo), Frac(1, 1000))
             THEN <<newLo, newHi>>
             ELSE BisectArrow(g, newLo, newHi, i + 1)

\* the one element of a set of one element
TheOne(S) == CHOOSE r \in S : TRUE

\* borderRadius / distance < 0.02: the straight-line estimate is taken
LinearPath(g) == RLess(RDiv(g.borderRadius, g.distance), Frac(2, 100))

\* tArrow: 1 - borderRadius / distance clamped to [0, 1] on the linear path,
\* (lo + hi) / 2 after the bisection otherwise
ArrowParameter(g) ==
    IF LinearPath(g)
    THEN RMin(Frac(1, 1),
              RMax(Frac(0, 1), RSub(Frac(1, 1), RDiv(g.borderRadius, g.distance))))
    ELSE TheOne({RMul(RAdd(found[1], found[2]), Frac(1, 2)) :
                    found \in {BisectArrow(g, Frac(1, 2), Frac(1, 1), 0)}})

\* the tip Q(tArrow)
TipAt(g, tArrow) ==
    [path |-> IF LinearPath(g) THEN "linear" ELSE "bisection",
     tArrow |-> tArrow,
     tipX |-> QuadraticAt(tArrow, g.startX, g.controlX, g.endX),
     tipY |-> QuadraticAt(tArrow, g.startY, g.controlY, g.endY)]

\* tArrow, the tip Q(tArrow) and the path taken
arrowTip(in) ==
    TheOne({TheOne({TipAt(g, tArrow) : tArrow \in {ArrowParameter(g)}}) :
               g \in {ArrowGeometry(in)}})

\* a drawing call on the context: NaN reaches it when one argument is NaN
Call(op, args) == [op |-> op, nan |-> \E k \in 1..Len(args) : args[k].nan]

\* measureText, translate, rotate, fillRect and fillText of the relationship
TextCalls(textX, textY) ==
    <<Call("translate", <<textX, textY>>), Call("fillRect", << >>),
      Call("fillText", << >>)>>

\* beginPath, moveTo(tip), three lineTo around the tip, fill
ArrowheadCalls(tipX, tipY, nx, ny) ==
    <<Call("moveTo", <<tipX, tipY>>), Call("lineTo", <<tipX, tipY, nx, ny>>),
      Call("lineTo", <<tipX, tipY, nx, ny>>), Call("lineTo", <<tipX, tipY, nx, ny>>),
      Call("fill", << >>)>>

\* d = (link.curve || 0) * nodeSize * 11.67 of a self-loop
LoopExtent(in) ==
    LET nodeSize == IF IsDefined(in.size) /\ in.size[1] # 0 THEN in.size[1] ELSE 6
    IN  Frac(in.curve * nodeSize * 1167, 1000)

\* absD > 0 && 3 * 0.5 * 0.5 * absD * Math.sqrt(0.5) >= borderRadius, that is
\* (3 absD)^2 >= (4 borderRadius)^2 + (4 borderRadius)^2
CanReachBorder(d, borderRadius) ==
    /\ d.n # 0
    /\ SumSqSign(RMul(Frac(4, 1), borderRadius), RMul(Frac(4, 1), borderRadius),
                 RMul(Frac(3, 1), d)) <= 0

\* the self-loop branch.  tArrow stays in [0.5, 1): it is 0.75 without the
\* search and a midpoint of [lo, hi] within [0.5, 1] after it, so 1 - tArrow and
\* 1 - 3 tArrow are not 0 and the tangent (tdx, tdy) is 0 exactly when d is 0.
\* The coordinates are sums and products of start.x, start.y, tArrow and d.
LoopCalls(in) ==
    LET d == LoopExtent(in)
        nodeSize == IF IsDefined(in.size) /\ in.size[1] # 0 THEN in.size[1] ELSE 6
        borderRadius == RAdd(Frac(nodeSize, 1),
                             IF in.selected THEN Frac(1, 1) ELSE Frac(1, 2))
        canReachBorder == CanReachBorder(d, borderRadius)
        tLenZero == d.n = 0
        sx == in.startX[1]
        sy == in.startY[1]
    IN  [kind |-> "loop", d |-> d, canReachBorder |-> canReachBorder,
         calls |->
            <<Call("moveTo", <<sx, sy>>),
              Call(IF canReachBorder THEN "bezierCurveTo clipped"
                                     ELSE "bezierCurveTo full", <<sx, sy, d>>),
              Call("stroke", << >>)>>
            \o (IF ~tLenZero /\ canReachBorder
                THEN ArrowheadCalls(RAdd(sx, d), RSub(sy, d), d, d)
                ELSE << >>)
            \o TextCalls(RAdd(sx, RMul(Frac(375, 1000), d)),
                         RSub(sy, RMul(Frac(375, 1000), d)))]

\* the calls of the branch of two distinct nodes, from the geometry and the tip
CurveCallsAt(g, tip) ==
    LET uArrow == RSub(Frac(1, 1), tip.tArrow)
        clippedCtrlX == RAdd(g.startX, RMul(tip.tArrow, RSub(g.controlX, g.startX)))
        clippedCtrlY == RAdd(g.startY, RMul(tip.tArrow, RSub(g.controlY, g.startY)))
        atx == RAdd(RMul(RMul(Frac(2, 1), uArrow), RSub(g.controlX, g.startX)),
                    RMul(RMul(Frac(2, 1), tip.tArrow), RSub(g.endX, g.controlX)))
        aty == RAdd(RMul(RMul(Frac(2, 1), uArrow), RSub(g.controlY, g.startY)),
                    RMul(RMul(Frac(2, 1), tip.tArrow), RSub(g.endY, g.controlY)))
        atLenZero == ~atx.nan /\ ~aty.nan /\ atx.n = 0 /\ aty.n = 0
    IN  [kind |-> "curve", tip |-> tip,
         calls |->
            <<Call("moveTo", <<g.startX, g.startY>>),
              Call("quadraticCurveTo", <<clippedCtrlX, clippedCtrlY, tip.tipX, tip.tipY>>),
              Call("stroke", << >>)>>
            \o (IF ~atLenZero
                THEN ArrowheadCalls(tip.tipX, tip.tipY, atx, aty)
                ELSE << >>)
            \o TextCalls(QuadraticAt(Frac(1, 2), g.startX, g.controlX, g.endX),
                         QuadraticAt(Frac(1, 2), g.startY, g.controlY, g.endY))]

\* the branch of two distinct nodes
CurveCalls(in) ==
    TheOne({CurveCallsAt(g, tip) : g \in {ArrowGeometry(in)}, tip \in {arrowTip(in)}})

\* start.x == null || start.y == null || end.x == null || end.y == null
MissingCoordinate(in) ==
    \/ in.startX = Undefined \/ in.startY = Undefined
    \/ in.endX = Undefined \/ in.endY = Undefined

\* drawLink without the return at distance === 0
drawLinkNoDistanceGuard(in) ==
    IF MissingCoordinate(in) THEN [kind |-> "none", calls |-> << >>]
    ELSE IF in.loop THEN LoopCalls(in)
    ELSE CurveCalls(in)

\* drawLink: what it draws for a link, its two end nodes and the selection
drawLinkCalls(in) ==
    IF MissingCoordinate(in) THEN [kind |-> "none", calls |-> << >>]
    ELSE IF in.loop THEN LoopCalls(in)
    ELSE IF in.distance.n = 0 THEN [kind |-> "none", calls |-> << >>]
    ELSE CurveCalls(in)

\* chords <<dx, dy, length>> from the start to the end, in px
ArrowChords ==
    {c \in {<<0, 0, 0>>, <<20, 0, 20>>, <<90, 0, 90>>, <<0, 90, 90>>,
            <<60, 80, 100>>, <<650, 0, 650>>, <<390, 520, 650>>} :
        c[3] * c[3] = c[1] * c[1] + c[2] * c[2]}

\* the curves dataToGraphData gives to links between two distinct nodes
ArrowCurves == {calculateLinkCurve(k, FALSE) : k \in 0..MaxIndex}

\* the curves of self-loops: those dataToGraphData gives, and 0 and 0.1 of a
\* snapshot installed by setGraphData
LoopCurves == {calculateLinkCurve(k, TRUE) : k \in 0..MaxIndex} \cup {0, 1}

\* links between two nodes, the end node at the origin
ChordInputs ==
    {[loop |-> FALSE,
      startX |-> Some(Frac(-c[1], 1)), startY |-> Some(Frac(-c[2], 1)),
      endX |-> Some(Frac(0, 1)), endY |-> Some(Frac(0, 1)),
      distance |-> Frac(c[3], 1),
      curve |-> curve, size |-> size, selected |-> selected] :
        c \in ArrowChords, curve \in ArrowCurves,
        size \in {Undefined, Some(10)}, selected \in BOOLEAN}

\* self-loops of a node at (30, 40)
LoopInputs ==
    {[loop |-> TRUE,
      startX |-> Some(Frac(30, 1)), startY |-> Some(Frac(40, 1)),
      endX |-> Some(Frac(30, 1)), endY |-> Some(Frac(40, 1)),
      distance |-> Frac(0, 1),
      curve |-> curve, size |-> size, selected |-> selected] :
        curve \in LoopCurves, size \in {Undefined, Some(10)}, selected \in BOOLEAN}

\* the same links before the engine has placed one of the nodes
UnplacedInputs ==
    {[in EXCEPT !.startX = Undefined] : in \in {i \in ChordInputs : i.curve = 0}}
    \cup {[in EXCEPT !.endY = Undefined] : in \in {i \in ChordInputs : i.curve = 0}}
    \cup {[in EXCEPT !.startX = Undefined, !.startY = Undefined,
                     !.endX = Undefined, !.endY = Undefined] : in \in LoopInputs}

ArrowInputs == ChordInputs \cup LoopInputs \cup UnplacedInputs

ArrowInit ==
    /\ HarnessIdle
    /\ CanvasInit
    /\ ForceIdle
    /\ WrapIdle
    /\ ColorIdle
    /\ arrowIn \in {Some(in) : in \in ArrowInputs}
    /\ arrowOut = Undefined
    /\ lastOp = "init"

CallDrawLink ==
    /\ IsDefined(arrowIn)
    /\ arrowOut = Undefined
    /\ arrowOut' = Some(drawLinkCalls(arrowIn[1]))
    /\ lastOp' = "drawLink"
    /\ UNCHANGED <<inData, inPosition, oldNodesMap, outGraph, outData, canvasVars,
                   forceVars, wrapVars, colorVars, arrowIn>>

ArrowNext == CallDrawLink

SpecArrow == ArrowInit /\ [][ArrowNext]_vars

Arrowed == IsDefined(arrowOut)

\* the curve starts outside the border circle of the end node and is outside
\* of it at t = 0.5, where the bisection starts
LeavesBorder(in) ==
    /\ OutsideBorder(ArrowGeometry(in), Frac(0, 1))
    /\ OutsideBorder(ArrowGeometry(in), Frac(1, 2))

\* |tip - end| is within tolerance of the border radius
TipOnBorder(in, tip, tolerance) ==
    LET g == ArrowGeometry(in)
    IN  /\ SumSqSign(RSub(tip.tipX, g.endX), RSub(tip.tipY, g.endY),
                     RSub(g.borderRadius, tolerance)) >= 0
        /\ SumSqSign(RSub(tip.tipX, g.endX), RSub(tip.tipY, g.endY),
                     RAdd(g.borderRadius, tolerance)) <= 0

\* C23: for a link between two distinct nodes whose curve leaves the border
\* circle of the end node, with any curve dataToGraphData assigns, the arrow tip
\* is at distance borderRadius from the centre of the end node, within 1e-2, on
\* the linear path and on the bisection path.
C23_TipOnBorder ==
    (Arrowed /\ arrowOut[1].kind = "curve" /\ LeavesBorder(arrowIn[1]))
        => TipOnBorder(arrowIn[1], arrowOut[1].tip, Frac(1, 100))

HasCall(out, op) == \E k \in 1..Len(out.calls) : out.calls[k].op = op

\* C24: no drawing call gets a NaN coordinate; with a coordinate undefined, or two
\* distinct end nodes at one place, nothing is drawn; a self-loop gets the
\* clipped stroke and the arrowhead when it can reach the border (|d| > 0 and
\* 3 * 0.25 * |d| * sqrt(0.5) >= borderRadius, the tangent then being non-zero),
\* and otherwise the full loop back to the node without an arrowhead.
C24_NoNaNDrawn ==
    Arrowed =>
        LET in == arrowIn[1]
            out == arrowOut[1]
        IN  /\ \A k \in 1..Len(out.calls) : ~out.calls[k].nan
            /\ (MissingCoordinate(in) \/ (~in.loop /\ in.distance.n = 0))
                  => out.calls = << >>
            /\ (~MissingCoordinate(in) /\ in.loop) =>
                  LET d == LoopExtent(in)
                      nodeSize == IF IsDefined(in.size) THEN in.size[1] ELSE 6
                      twiceRadius == 2 * nodeSize + (IF in.selected THEN 2 ELSE 1)
                      X == 3 * Abs(d.n)
                      Y == 2 * twiceRadius * d.d
                      \* 9 d^2 >= 32 borderRadius^2, that is X^2 >= 2 Y^2
                      reach == /\ d.n # 0
                               /\ \/ X >= 2 * Y
                                  \/ X > Y /\ X * X >= 2 * Y * Y
                  IN  /\ out.canReachBorder <=> reach
                      /\ reach => (/\ HasCall(out, "bezierCurveTo clipped")
                                   /\ HasCall(out, "fill")
                                   /\ ~HasCall(out, "bezierCurveTo full"))
                      /\ ~reach => (/\ HasCall(out, "bezierCurveTo full")
                                    /\ ~HasCall(out, "fill")
                                    /\ ~HasCall(out, "bezierCurveTo clipped"))

C24_Witness ==
    /\ Arrowed
    /\ ~arrowIn[1].loop
    /\ ~MissingCoordinate(arrowIn[1])
    /\ arrowIn[1].startX = arrowIn[1].endX
    /\ arrowIn[1].startY = arrowIn[1].endY
    /\ arrowOut[1].calls = << >>

-----------------------------------------------------------------------------
(* Part 8: the text cache of drawLink and the labels of drawNode *)

\* C25: a relationship string is measured at most once, when the first link with
\* it is drawn; what the cache holds for a string never changes afterwards, and
\* a drawn link finds its string in the cache, whatever data is installed.
C25_MeasuredOnce ==
    [][/\ \A i, j \in 1..Len(measured') : i # j => measured'[i] # measured'[j]
       /\ \A r \in DOMAIN relationshipsTextCache :
             /\ r \in DOMAIN relationshipsTextCache'
             /\ relationshipsTextCache'[r] = relationshipsTextCache[r]
       /\ lastOp' = "paint" =>
             \A k \in 1..Len(drawn') :
                 drawn'[k].kind # "none" =>
                     /\ data.links[k].relationship \in DOMAIN relationshipsTextCache'
                     /\ (data.links[k].relationship \notin DOMAIN relationshipsTextCache
                           <=> \E i \in (Len(measured) + 1)..Len(measured') :
                                  measured'[i] = data.links[k].relationship)]_vars

C25_Witness ==
    /\ lastOp = "paint"
    /\ measured = <<"REL">>
    /\ \E a, b \in 1..Len(drawn) :
          /\ a # b
          /\ drawn[a].kind # "none" /\ drawn[b].kind # "none"
          /\ data.links[a].relationship = "REL" /\ data.links[b].relationship = "REL"

PADDING == 2

\* String(value) of a natural number: its decimal digits
RECURSIVE StringOf(_)
StringOf(n) ==
    LET digit == <<"0", "1", "2", "3", "4", "5", "6", "7", "8", "9">>[(n % 10) + 1]
    IN  IF n < 10 THEN <<digit>> ELSE Append(StringOf(n \div 10), digit)

\* the characters of a property key
KeyChars(key) ==
    CASE key = "name" -> <<"n", "a", "m", "e">>
      [] key = "title" -> <<"t", "i", "t", "l", "e">>

\* captionKeys.find(...): the keys from k on, Undefined when none has a value.
\* The values of the model are the node ids, numbers above 0.
RECURSIVE FindCaptionKey(_, _, _)
FindCaptionKey(node, captionKeys, k) ==
    IF k > Len(captionKeys) THEN Undefined
    ELSE IF captionKeys[k] \in DOMAIN node.data /\ node.data[captionKeys[k]] # 0
    THEN Some(captionKeys[k])
    ELSE FindCaptionKey(node, captionKeys, k + 1)

getNodeDisplayText(node, captionKeys, showPropertyKeyPrefix) ==
    LET key == FindCaptionKey(node, captionKeys, 1)
    IN  IF IsDefined(key)
        THEN IF showPropertyKeyPrefix
             THEN KeyChars(key[1]) \o <<":", " ">> \o StringOf(node.data[key[1]])
             ELSE StringOf(node.data[key[1]])
        ELSE IF showPropertyKeyPrefix
             THEN <<"I", "D", ":", " ">> \o StringOf(node.id)
             ELSE StringOf(node.id)

\* the two lines drawNode computes for a node without a display name; the
\* radius is in eighths, as wrapTextForCircularNode takes it
NodeLabel(node, cfg) ==
    wrapTextForCircularNode(
        getNodeDisplayText(node, Prop(cfg, "captionsKeys")[1],
                           Prop(cfg, "showPropertyKeyPrefix")[1]),
        8 * node.size - 4 * PADDING)

\* drawNode: the node it leaves and the two lines it fills; nothing is drawn
\* for a node without coordinates
drawNode(node, cfg) ==
    IF node.x = Undefined \/ node.y = Undefined
    THEN [node |-> node, kind |-> "none"]
    ELSE IF Len(node.displayName[1]) = 0 /\ Len(node.displayName[2]) = 0
    THEN [node |-> [node EXCEPT !.displayName = NodeLabel(node, cfg)],
          kind |-> "label", lines |-> NodeLabel(node, cfg)]
    ELSE [node |-> node, kind |-> "label", lines |-> node.displayName]

\* one paint of the nodes: drawNode for every node, in list order (no custom
\* node renderer is configured)
PaintNodes ==
    /\ IsDefined(graph)
    /\ Len(data.nodes) > 0
    /\ data' = [data EXCEPT !.nodes =
                   [i \in 1..Len(data.nodes) |-> drawNode(data.nodes[i], config).node]]
    /\ drawn' = [i \in 1..Len(data.nodes) |->
                    Rest(drawNode(data.nodes[i], config), {"node"})]
    /\ lastOp' = "drawNode"
    /\ UNCHANGED <<harnessVars, lifeVars, paintVars>>

\* what setConfig is given for the captions
CaptionInputs ==
    {[captionsKeys |-> Some(<<"title", "name">>)],
     [showPropertyKeyPrefix |-> Some(TRUE)],
     [captionsKeys |-> Some(<< >>), showPropertyKeyPrefix |-> Some(FALSE)]}

\* the Data values given to setData: node 1, or nodes 1 and 2 with a link
DrawInputs ==
    {[nodes |-> [i \in 1..n |-> InputNode(i)],
      links |-> [k \in 1..(n - 1) |-> InputLink(k, 1, 2)]] : n \in 1..2}

DrawNext ==
    \/ \E d \in DrawInputs : SetData(d)
    \/ EngineTick
    \/ Paint
    \/ PaintNodes
    \/ \E c \in CaptionInputs : setConfig(c)

SpecDraw == CanvasStart /\ [][DrawNext]_vars

\* C26: the label drawn for a node is the two-line wrap of the caption resolved
\* under the configuration current at that draw, so the draw after a setConfig
\* of captionsKeys or showPropertyKeyPrefix shows the newly resolved caption.
C26_LabelFollowsConfig ==
    lastOp = "drawNode" =>
        \A i \in 1..Len(drawn) :
            drawn[i].kind = "label" =>
                drawn[i].lines = NodeLabel(data.nodes[i], config)

-----------------------------------------------------------------------------
(* Part 9: the loading state and the tick budget under every setter *)

\* triggerRender: a graph whose engine has a budget of 0 ticks is given 1
triggerRender(g) ==
    IF IsDefined(g) /\ g[1].cooldownTicks = Some(0)
    THEN Some([g[1] EXCEPT !.cooldownTicks = Some(1)])
    ELSE g

setForegroundColor(color) ==
    /\ Prop(config, "foregroundColor") # Some(color)
    /\ config' = Spread(config, [foregroundColor |-> Some(color)])
    /\ graph' = triggerRender(graph)
    /\ calls' = << >>
    /\ loadingCalls' = << >>
    /\ lastOp' = "setForegroundColor"
    /\ UNCHANGED <<harnessVars, paintVars, data, drawn, viewport, nodeDegreeMap,
                   engineStatus, timers, settled>>

\* setIsLoading: the overlay follows, onLoadingChange is not called
setIsLoading(isLoading) ==
    /\ Prop(config, "isLoading") # Some(isLoading)
    /\ config' = Spread(config, [isLoading |-> Some(isLoading)])
    /\ calls' = << >>
    /\ loadingCalls' = << >>
    /\ lastOp' = "setIsLoading"
    /\ UNCHANGED <<harnessVars, paintVars, data, drawn, graph, viewport, nodeDegreeMap,
                   engineStatus, timers, settled>>

\* what setConfig is given for the simulation
KnobConfigs == {[cooldownTicks |-> Some(0)], [autoStopOnSettle |-> Some(FALSE)]}

\* the Data values given to setData: no node, or node 1
KnobInputs == {[nodes |-> [i \in 1..n |-> InputNode(i)], links |-> << >>] : n \in 0..1}

\* the snapshot given to setGraphData: node 1, placed
KnobGraphs ==
    {dataToGraphData([nodes |-> <<InputNode(1)>>, links |-> << >>], Undefined, EmptyOld)}

KnobsNext ==
    \/ connectedCallback
    \/ \E d \in KnobInputs : SetData(d)
    \/ \E g \in KnobGraphs : setGraphData(g)
    \/ \E ticks \in TickInputs : setCooldownTicks(ticks)
    \/ \E c \in KnobConfigs : setConfig(c)
    \/ \E color \in {"#1A1A1A", "#FFFFFF"} : setForegroundColor(color)
    \/ \E isLoading \in BOOLEAN : setIsLoading(isLoading)
    \/ EngineStop
    \/ GraceTimer

SpecKnobs == LifeStart /\ [][KnobsNext]_vars

\* C27: every change of config.isLoading makes one onLoadingChange call with the
\* new value, and a step that leaves the value as it was makes no call.
C27_CallsFollowLoading ==
    [][IF Prop(config', "isLoading") # Prop(config, "isLoading")
       THEN loadingCalls' = <<Prop(config', "isLoading")[1]>>
       ELSE loadingCalls' = << >>]_vars

\* C30: while the graph exists, after every public operation and every timer
\* callback the tick budget of the engine is config.cooldownTicks, Infinity
\* standing for undefined.
C30_EngineFollowsConfig ==
    IsDefined(graph) =>
        graph[1].cooldownTicks = Coalesce(Prop(config, "cooldownTicks"), Infinity)

-----------------------------------------------------------------------------
(* Part 10: the draw pass and the engine stop of src/src/canvas.ts *)

\* !v of a coordinate: undefined and 0 are both falsy
Falsy(v) == v = Undefined \/ v = Some(0)

\* drawNode of canvas.ts, what it does to the node before it draws
drawNodeCanvasTs(node) ==
    IF Falsy(node.x) \/ Falsy(node.y)
    THEN Spread(node, [x |-> Some(0), y |-> Some(0)])
    ELSE node

\* drawLink of canvas.ts, what it does to the nodes before it draws
drawLinkCanvasTs(link, nodes) ==
    LET start == nodes[link.source.at]
        end == nodes[link.target.at]
    IN  IF Falsy(start.x) \/ Falsy(start.y) \/ Falsy(end.x) \/ Falsy(end.y)
        THEN [i \in 1..Len(nodes) |->
                 IF i \in {link.source.at, link.target.at}
                 THEN Spread(nodes[i], [x |-> Some(0), y |-> Some(0)])
                 ELSE nodes[i]]
        ELSE nodes

\* drawLink for the links from k on, in list order
RECURSIVE DrawLinksCanvasTs(_, _, _)
DrawLinksCanvasTs(links, nodes, k) ==
    IF k > Len(links) THEN nodes
    ELSE DrawLinksCanvasTs(links, drawLinkCanvasTs(links[k], nodes), k + 1)

\* one frame: force-graph paints the links, then the nodes
PaintCanvasTs ==
    /\ IsDefined(graph)
    /\ Len(data.nodes) > 0
    /\ LET nodes == DrawLinksCanvasTs(data.links, data.nodes, 1)
       IN  data' = [data EXCEPT !.nodes =
                       [i \in 1..Len(nodes) |-> drawNodeCanvasTs(nodes[i])]]
    /\ drawn' = << >>
    /\ lastOp' = "draw"
    /\ UNCHANGED <<harnessVars, lifeVars, paintVars>>

DrawTsNext ==
    \/ \E d \in CanvasInputs : SetData(d)
    \/ EngineTick
    \/ PaintCanvasTs

SpecDrawTs == CanvasStart /\ [][DrawTsNext]_vars

\* C28: a draw pass leaves x and y of every node as they were, also for a node
\* whose x or y is 0 or undefined.
C28_DrawKeepsPositions ==
    [][lastOp' = "draw" =>
          \A i \in 1..Len(data.nodes) :
              /\ data'.nodes[i].x = data.nodes[i].x
              /\ data'.nodes[i].y = data.nodes[i].y]_vars

\* handleEngineStop of canvas.ts: nothing at all with cooldownTicks at 0
handleEngineStopCanvasTs(cfg) ==
    IF Prop(cfg, "cooldownTicks") = Some(0)
    THEN [config |-> cfg, calls |-> << >>, loadingCalls |-> << >>]
    ELSE IF Prop(cfg, "autoStopOnSettle") # Some(FALSE)
    THEN [config |-> cfg, calls |-> <<"zoomToFit", "setTimeout">>,
          loadingCalls |-> << >>]
    ELSE [config |-> Spread(cfg, [isLoading |-> Some(FALSE)]),
          calls |-> <<"zoomToFit">>, loadingCalls |-> <<FALSE>>]

\* the engine stops and reports it through onEngineStop
EngineStopCanvasTs ==
    /\ IsDefined(graph)
    /\ graph[1].engineRunning
    /\ LET stop == handleEngineStopCanvasTs(config)
           Called(f) == \E i \in 1..Len(stop.calls) : stop.calls[i] = f
       IN  /\ Called("setTimeout") => timers < MaxTimers
           /\ config' = stop.config
           /\ calls' = stop.calls
           /\ loadingCalls' = stop.loadingCalls
           /\ timers' = IF Called("setTimeout") THEN timers + 1 ELSE timers
           /\ graph' = Some([graph[1] EXCEPT
                               !.engineRunning = FALSE,
                               !.camera = IF Called("zoomToFit")
                                          THEN [by |-> "zoomToFit", view |-> Undefined]
                                          ELSE @])
    /\ settled' = TRUE
    /\ lastOp' = "engineStop"
    /\ UNCHANGED <<harnessVars, paintVars, data, drawn, viewport, nodeDegreeMap, engineStatus>>

StopTsNext ==
    \/ \E d \in KnobInputs : SetData(d)
    \/ \E v \in ViewportInputs : setViewport(v)
    \/ \E ticks \in TickInputs : setCooldownTicks(ticks)
    \/ \E c \in ConfigInputs : setConfig(c)
    \/ EngineStopCanvasTs
    \/ GraceTimer

SpecStopTs == CanvasStart /\ [][StopTsNext]_vars

\* C29: when the engine reports a stop while the data is loading, loading is
\* finished by the stop or the grace timer that finishes it is pending, whatever
\* setCooldownTicks, setConfig and setViewport did since the setData.
C29_StopFinishesLoading ==
    [][(lastOp' = "engineStop" /\ Prop(config, "isLoading") = Some(TRUE))
          => (Prop(config', "isLoading") = Some(FALSE) \/ timers' > 0)]_vars

=============================================================================
